---------------------------- MODULE Spec2Model ----------------------------
(***************************************************************************)
(* A model of the depth plotting core of AsmEvidenceProfile:               *)
(*   static/depth_plotter.py      DepthParser, SlidingWindowProcessor,     *)
(*                                DepthRegionAnalyzer, DataProcessor,      *)
(*                                DepthPlotter, SynchronizedDepthReader,   *)
(*                                main                                      *)
(*   static/integrated_montage.py run (layout and scale-bar relocation)    *)
(*                                                                         *)
(* One set of variables carries every component.  Each component has its  *)
(* own initial predicate, next-state relation and specification; the      *)
(* variables of the other components stay at their idle values.           *)
(***************************************************************************)
EXTENDS Integers, Sequences, FiniteSets, TLC

VARIABLES
    \* ---- DepthParser.parse_depth_file_filtered (one call)
    p_file,            \* the lines of the depth file
    p_targets,         \* the target_sequences argument
    p_pc,              \* "ready" | "returned"
    p_sequences,       \* self.sequences
    p_mean_depths,     \* self.mean_depths
    \* ---- SynchronizedDepthReader
    hifi_file,         \* lines of the HiFi source, or NoFile
    ont_file,          \* lines of the ONT source, or NoFile
    target_sequences,  \* self.target_sequences
    regions,           \* self.regions: NoRegions or the set of its keys
    r_pc,              \* "start" | "yielding" | "ended"
    hifi_map,          \* local hifi_map of read_sequences
    ont_map,           \* local ont_map of read_sequences
    seq_ids,           \* the entries of seq_ids not yet visited by the loop
    processed_sequences, \* self.processed_sequences
    yielded,           \* the tuples yielded so far, in order
    \* ---- windowing engine (calls on one depth array)
    w_depths,          \* the depths argument
    window_size,       \* self.window_size
    w_done,            \* which of "stats", "sliding" have returned
    w_stats,           \* result of calculate_windowed_stats
    w_sliding,         \* result of calculate_sliding_window
    \* ---- DepthRegionAnalyzer.analyze_depth_regions (one call)
    g_hifi,            \* the hifi_depths argument
    g_ont,             \* the ont_depths argument
    min_safe_depth,    \* self.min_safe_depth
    g_pc,              \* "ready" | "returned"
    g_regions,         \* the dict returned
    \* ---- DepthPlotter.plot_single_sequence (one call)
    pl_hifi,           \* the hifi_depths argument
    pl_ont,            \* the ont_depths argument
    pl_window_size,    \* the window_size argument
    pl_pc,             \* "ready" | "returned"
    pl_result,         \* what the call did and how it ended
    \* ---- main: the loop over reader.read_sequences()
    regions_to_use,    \* NoRegionMap or the mapping sequence ID -> intervals
    m_window_size,     \* args.window_size
    m_pending,         \* sequence IDs the reader has still to yield
    successful,        \* the successful tally
    failed,            \* the failed tally
    m_log,             \* one record per iteration of the loop
    m_pc,              \* "loop" | "reported"
    \* ---- integrated_montage.run
    args,              \* the arguments run reads
    lv_rects,          \* LINKVIEW: the chro rectangles of the first render
    lv_regen_rects,    \* LINKVIEW: the chro rectangles of a regenerated render
    lv_scale,          \* LINKVIEW: scale_y_ratio -> scale-bbox rectangle
    lv_requests,       \* the scale_y_ratio of every LV.main call, in order
    tmp_svg,           \* the render held by the temporary SVG file
    inner,             \* local inner: the render to embed
    inner_new,         \* local inner_new of the default-hit branch
    tracks,            \* local tracks
    layout,            \* the panel positions computed from tracks
    candidates,        \* the candidate ratios the loop has still to try
    run_branch,        \* "none" | "default_hit" | "parsed_hit"
    depth_by_chr,      \* local depth_by_chr: sequence ID -> (hifi, ont) arrays
    composite,         \* what the composite SVG is assembled from
    out_files,         \* which of args.output + ".svg", ".pdf" exist
    convert_attempts,  \* the PDF converters tried, in order, with their outcome
    warned,            \* the conversion warning has been printed
    run_pc,            \* position in run
    \* ---- region extraction from a boolean mask (calls on one mask)
    mk_mask,           \* the mask argument
    mk_done,           \* which of "continuous", "mask_to" have returned
    mk_continuous,     \* result of _find_continuous_regions
    mk_mask_to,        \* result of _mask_to_regions
    \* ---- _scale_x_by_length (one call)
    sx_indexes,        \* the indexes argument
    sx_total_length,   \* the total_length argument
    sx_left,           \* the x_left argument
    sx_right,          \* the x_right argument
    sx_pc,             \* "ready" | "returned"
    sx_result,         \* the list returned
    \* ---- _collect_chro_tracks (one call)
    ct_rects,          \* the chro rectangles of inner_svg, in document order
    ct_pc,             \* "ready" | "returned"
    ct_tracks,         \* the list returned
    \* ---- build_bars_for_seq (one call)
    bb_hifi,           \* the hifi_arr argument
    bb_ont,            \* the ont_arr argument
    bb_args,           \* window_size, max_depth_ratio, depth_height, x_left, x_right, panel_origin_y
    bb_pc,             \* "ready" | "returned"
    bb_result          \* (bg_elems, bars_top, bars_bottom, baseline_y) and the mean lines

parserVars == <<p_file, p_targets, p_pc, p_sequences, p_mean_depths>>
readerVars == <<hifi_file, ont_file, target_sequences, regions, r_pc,
                hifi_map, ont_map, seq_ids, processed_sequences, yielded>>
windowVars == <<w_depths, window_size, w_done, w_stats, w_sliding>>
regionVars == <<g_hifi, g_ont, min_safe_depth, g_pc, g_regions>>
plotVars == <<pl_hifi, pl_ont, pl_window_size, pl_pc, pl_result>>
mainVars == <<regions_to_use, m_window_size, m_pending, successful, failed, m_log, m_pc>>
outVars == <<out_files, convert_attempts, warned>>
runVars == <<args, lv_rects, lv_regen_rects, lv_scale, lv_requests, tmp_svg, inner, inner_new,
             tracks, layout, candidates, run_branch, depth_by_chr, composite, outVars, run_pc>>
maskVars == <<mk_mask, mk_done, mk_continuous, mk_mask_to>>
scaleVars == <<sx_indexes, sx_total_length, sx_left, sx_right, sx_pc, sx_result>>
trackVars == <<ct_rects, ct_pc, ct_tracks>>
barVars == <<bb_hifi, bb_ont, bb_args, bb_pc, bb_result>>
pureVars == <<maskVars, scaleVars, trackVars, barVars>>
programVars == <<parserVars, readerVars, windowVars, regionVars, plotVars, mainVars, runVars>>

-----------------------------------------------------------------------------
(* Generic helpers                                                          *)

Min(a, b) == IF a <= b THEN a ELSE b
Max(a, b) == IF a >= b THEN a ELSE b

RECURSIVE SumSeq(_)
SumSeq(s) == IF s = <<>> THEN 0 ELSE Head(s) + SumSeq(Tail(s))

\* s[a:b] of Python for 0 <= a, on a 1-based TLA+ sequence
Slice(s, a, b) ==
    LET hi == Min(b, Len(s))
    IN  IF a >= hi THEN <<>> ELSE [k \in 1..(hi - a) |-> s[a + k]]

\* every sequence over S of length at most n
SeqsUpTo(S, n) == UNION {[1..k -> S] : k \in 0..n}

RECURSIVE Flatten(_)
Flatten(ss) == IF ss = <<>> THEN <<>> ELSE Head(ss) \o Flatten(Tail(ss))

EmptyMap == <<>>
Keys(m) == DOMAIN m

\* a mean kept exact: numerator and denominator
Mean(s) == [num |-> SumSeq(s), den |-> Len(s)]
ZeroMean == [num |-> 0, den |-> 1]
MeanEq(a, b) == a.num * b.den = b.num * a.den

-----------------------------------------------------------------------------
(* Depth files                                                              *)

\* the largest value a signed 16-bit array would hold
SignedShortMax == 65535 \div 2

\* the largest value array('H') holds
MaxDepthValue == 65535

Header(id) == [kind |-> "header", id |-> id, v |-> 0]
Value(n)   == [kind |-> "value", id |-> "", v |-> n]
Junk       == [kind |-> "junk", id |-> "", v |-> 0]

NoSeq == "<None>"
Truthy(s) == s # NoSeq /\ s # ""

\* the state parse_depth_file_filtered keeps while it walks the lines
ParseStart(sequences) ==
    [sequences |-> sequences, current_seq |-> NoSeq, has_array |-> FALSE,
     current_depth_array |-> <<>>, include_current |-> FALSE,
     processed_count |-> 0, skipped_count |-> 0]

\* a commit that extends the array already stored under the ID
ParseCommitAppending(st) ==
    IF Truthy(st.current_seq) /\ st.has_array /\ st.include_current
    THEN [st EXCEPT
            !.sequences =
                (st.current_seq :>
                    (IF st.current_seq \in Keys(st.sequences)
                     THEN st.sequences[st.current_seq] ELSE <<>>)
                    \o st.current_depth_array) @@ st.sequences,
            !.processed_count = st.processed_count + 1]
    ELSE IF Truthy(st.current_seq) /\ ~st.include_current
    THEN [st EXCEPT !.skipped_count = st.skipped_count + 1]
    ELSE st

\* the commit done on a header line and once more after the last line
ParseCommit(st) ==
    IF Truthy(st.current_seq) /\ st.has_array /\ st.include_current
    THEN [st EXCEPT
            !.sequences = (st.current_seq :> st.current_depth_array) @@ st.sequences,
            !.processed_count = st.processed_count + 1]
    ELSE IF Truthy(st.current_seq) /\ ~st.include_current
    THEN [st EXCEPT !.skipped_count = st.skipped_count + 1]
    ELSE st

\* a test that includes every sequence
IncludeCurrentAll(seq, targets) == TRUE

\* membership test that decides include_current on a header line
IncludeCurrent(seq, targets) == seq \in targets

\* one iteration of "for line in f"
ParseLine(st, line, targets) ==
    IF line.kind = "header"
    THEN LET c == ParseCommit(st)
             inc == IncludeCurrent(line.id, targets)
         IN  [c EXCEPT !.current_seq = line.id,
                       !.include_current = inc,
                       !.has_array = inc,
                       !.current_depth_array = <<>>]
    ELSE IF st.include_current /\ st.has_array
    THEN IF line.kind = "junk"
         THEN st                                  \* int(line) raises ValueError
         ELSE IF 0 <= line.v /\ line.v <= MaxDepthValue
         THEN [st EXCEPT !.current_depth_array = Append(@, line.v)]
         ELSE IF line.v > MaxDepthValue
         THEN [st EXCEPT !.current_depth_array = Append(@, MaxDepthValue)]
         ELSE st
    ELSE st

RECURSIVE ParseLines(_, _, _)
ParseLines(st, lines, targets) ==
    IF lines = <<>> THEN st
    ELSE ParseLines(ParseLine(st, Head(lines), targets), Tail(lines), targets)

\* the dict parse_depth_file_filtered returns (self.sequences)
ParseDepthFileFiltered(lines, targets) ==
    ParseCommit(ParseLines(ParseStart(EmptyMap), lines, targets)).sequences

MeanDepths(sequences) ==
    [id \in Keys(sequences) |->
        IF Len(sequences[id]) > 0 THEN Mean(sequences[id]) ELSE ZeroMean]

\* the sequence IDs that have a header in a file
HeaderIds(lines) == {lines[i].id : i \in {j \in 1..Len(lines) : lines[j].kind = "header"}}


-----------------------------------------------------------------------------
(* Windowing and region classification                                      *)

\* the loop shared by _find_non_zero_segments, _find_continuous_regions and
\* _mask_to_regions: i is the 0-based index, start is -1 for None
RECURSIVE ScanMask(_, _, _, _)
ScanMask(mask, i, start, acc) ==
    IF i >= Len(mask)
    THEN [regions |-> acc, start |-> start]
    ELSE IF mask[i + 1] /\ start = -1
    THEN ScanMask(mask, i + 1, i, acc)
    ELSE IF ~mask[i + 1] /\ start # -1
    THEN ScanMask(mask, i + 1, -1, Append(acc, <<start, i - 1>>))
    ELSE ScanMask(mask, i + 1, start, acc)

\* a scan that forgets the run still open at the end
CloseAtEndDropped(scan, n) == scan.regions

\* the interval appended after the loop when a run reaches the end
CloseAtEnd(scan, n) ==
    IF scan.start # -1 THEN Append(scan.regions, <<scan.start, n - 1>>)
    ELSE scan.regions

FindNonZeroSegments(depths) ==
    LET non_zero == [k \in 1..Len(depths) |-> ~(depths[k] = 0)]
    IN  CloseAtEnd(ScanMask(non_zero, 0, -1, <<>>), Len(depths))

FindContinuousRegions(mask) ==
    IF Len(mask) = 0 THEN <<>>
    ELSE CloseAtEnd(ScanMask(mask, 0, -1, <<>>), Len(mask))

MaskToRegions(mask) == CloseAtEnd(ScanMask(mask, 0, -1, <<>>), Len(mask))

NoWindows == [means |-> <<>>, starts |-> <<>>, ends |-> <<>>]

\* a window count that forgets the shorter last window
NumWindowsNoRemainder(n, w) == Max(1, n \div w)

\* number of iterations of the window loop over a segment of length n
NumWindows(n, w) == Max(1, n \div w) + (IF n % w # 0 THEN 1 ELSE 0)

\* the windows of one segment, appended to acc
RECURSIVE SegmentWindows(_, _, _, _, _)
SegmentWindows(depths, seg, w, i, acc) ==
    LET segment_depths == Slice(depths, seg[1], seg[2] + 1)
        segment_length == Len(segment_depths)
        window_start_in_segment == i * w
        window_end_in_segment == Min((i + 1) * w, segment_length)
        abs_start == seg[1] + window_start_in_segment
        abs_end == seg[1] + window_end_in_segment - 1
        window_data == Slice(segment_depths, window_start_in_segment, window_end_in_segment)
    IN  IF segment_length = 0 \/ i >= NumWindows(segment_length, w) THEN acc
        ELSE SegmentWindows(depths, seg, w, i + 1,
                IF Len(window_data) > 0
                THEN [means |-> Append(acc.means, Mean(window_data)),
                      starts |-> Append(acc.starts, abs_start),
                      ends |-> Append(acc.ends, abs_end)]
                ELSE acc)

RECURSIVE AllSegmentWindows(_, _, _, _)
AllSegmentWindows(depths, segments, w, acc) ==
    IF segments = <<>> THEN acc
    ELSE AllSegmentWindows(depths, Tail(segments), w,
                           SegmentWindows(depths, Head(segments), w, 0, acc))

\* DataProcessor.calculate_windowed_stats: (means, starts, ends)
CalculateWindowedStats(depths, w) ==
    IF Len(depths) = 0 THEN NoWindows
    ELSE AllSegmentWindows(depths, FindNonZeroSegments(depths), w, NoWindows)

\* a moving average that loses its last valid window
CalculateSlidingWindowOffByOne(depths, w) ==
    IF Len(depths) = 0 THEN [positions |-> <<>>, avg_depths |-> <<>>]
    ELSE IF Len(depths) < w
    THEN [positions |-> <<Len(depths) \div 2>>, avg_depths |-> <<Mean(depths)>>]
    ELSE LET num_valid_windows == Len(depths) - w
         IN  [positions |-> [k \in 1..num_valid_windows |-> (k - 1) + (w - 1) \div 2],
              avg_depths |-> [k \in 1..num_valid_windows |-> Mean(Slice(depths, k - 1, k - 1 + w))]]

\* a moving average that divides a short sequence by the window size
CalculateSlidingWindowKernelMean(depths, w) ==
    IF Len(depths) = 0 THEN [positions |-> <<>>, avg_depths |-> <<>>]
    ELSE IF Len(depths) < w
    THEN [positions |-> <<Len(depths) \div 2>>,
          avg_depths |-> <<[num |-> SumSeq(depths), den |-> w]>>]
    ELSE LET num_valid_windows == Len(depths) - w + 1
         IN  [positions |-> [k \in 1..num_valid_windows |-> (k - 1) + (w - 1) \div 2],
              avg_depths |-> [k \in 1..num_valid_windows |-> Mean(Slice(depths, k - 1, k - 1 + w))]]

\* SlidingWindowProcessor.calculate_sliding_window: (positions, avg_depths)
CalculateSlidingWindow(depths, w) ==
    IF Len(depths) = 0 THEN [positions |-> <<>>, avg_depths |-> <<>>]
    ELSE IF Len(depths) < w
    THEN [positions |-> <<Len(depths) \div 2>>, avg_depths |-> <<Mean(depths)>>]
    ELSE LET num_valid_windows == Len(depths) - w + 1
         IN  [positions |-> [k \in 1..num_valid_windows |-> (k - 1) + (w - 1) \div 2],
              avg_depths |-> [k \in 1..num_valid_windows |-> Mean(Slice(depths, k - 1, k - 1 + w))]]

\* hifi_depths + ont_depths of numpy, for arrays of one length
AddArrays(a, b) == [k \in 1..Len(a) |-> a[k] + b[k]]

\* a low mask that takes the threshold itself as low
LowMaskInclusive(depths, t) == [k \in 1..Len(depths) |-> depths[k] > 0 /\ depths[k] <= t]

ZeroMask(depths) == [k \in 1..Len(depths) |-> depths[k] = 0]
LowMask(depths, t) == [k \in 1..Len(depths) |-> depths[k] > 0 /\ depths[k] < t]
NormalMask(depths, t) == [k \in 1..Len(depths) |-> depths[k] >= t]

\* DepthRegionAnalyzer.analyze_depth_regions
AnalyzeDepthRegions(hifi_depths, ont_depths, threshold) ==
    LET combined_depths ==
            IF Len(ont_depths) > 0 /\ Len(hifi_depths) > 0
            THEN AddArrays(hifi_depths, ont_depths)
            ELSE IF Len(ont_depths) > 0 THEN ont_depths ELSE hifi_depths
    IN  [zero_depth |-> FindContinuousRegions(ZeroMask(combined_depths)),
         low_depth |-> FindContinuousRegions(LowMask(combined_depths, threshold)),
         normal_depth |-> FindContinuousRegions(NormalMask(combined_depths, threshold))]

\* DataProcessor.analyze_depth_regions: zero and low regions only
ProcessorDepthRegions(depths, threshold) ==
    IF Len(depths) = 0 THEN [zero |-> <<>>, low |-> <<>>, medium |-> <<>>]
    ELSE [zero |-> MaskToRegions(ZeroMask(depths)),
          low |-> MaskToRegions(LowMask(depths, threshold))]

-----------------------------------------------------------------------------
(* DepthPlotter.plot_single_sequence                                        *)

\* the default of the min_safe_depth parameter
DefaultMinSafeDepth == 5

\* a length check that fires only when the HiFi array is the shorter one
LengthMismatchShorterOnly(hifi_depths, ont_depths) ==
    /\ Len(hifi_depths) > 0
    /\ Len(ont_depths) > 0
    /\ Len(hifi_depths) < Len(ont_depths)

\* the length check made when both datasets are present
LengthMismatch(hifi_depths, ont_depths) ==
    /\ Len(hifi_depths) > 0
    /\ Len(ont_depths) > 0
    /\ Len(hifi_depths) # Len(ont_depths)

\* processed_data[data_type] of plot_single_sequence
ProcessedData(depths, w, threshold) ==
    [stats |-> CalculateWindowedStats(depths, w),
     regions |-> ProcessorDepthRegions(depths, threshold)]

NotProcessed == [stats |-> NoWindows, regions |-> [zero |-> <<>>, low |-> <<>>]]

\* the steps that compute windows or draw, in the order of the code
RenderSteps(has_hifi, has_ont) ==
    (IF has_hifi THEN <<"calculate_windowed_stats", "analyze_depth_regions">> ELSE <<>>)
    \o (IF has_ont THEN <<"calculate_windowed_stats", "analyze_depth_regions">> ELSE <<>>)
    \o <<"subplots">>
    \o <<IF has_hifi /\ has_ont THEN "_plot_both_data" ELSE "_plot_single_data">>
    \o <<"_setup_plot_properties", "_create_legend", "_save_plot", "close">>

\* one call: outcome is "None" (returned None), "ValueError" (raised) or
\* "path" (returned the output path); steps lists what ran, output_file
\* tells whether a file was written
PlotSingleSequence(hifi_depths, ont_depths, w, threshold) ==
    LET has_hifi == Len(hifi_depths) > 0
        has_ont == Len(ont_depths) > 0
    IN  IF ~has_hifi /\ ~has_ont
        THEN [outcome |-> "None", steps |-> <<>>, output_file |-> FALSE,
              plot_mode |-> "none", hifi |-> NotProcessed, ont |-> NotProcessed]
        ELSE IF LengthMismatch(hifi_depths, ont_depths)
        THEN [outcome |-> "ValueError", steps |-> <<>>, output_file |-> FALSE,
              plot_mode |-> "none", hifi |-> NotProcessed, ont |-> NotProcessed]
        ELSE [outcome |-> "path",
              steps |-> RenderSteps(has_hifi, has_ont),
              output_file |-> TRUE,
              plot_mode |-> IF has_hifi /\ has_ont THEN "both"
                            ELSE IF has_hifi THEN "hifi_only" ELSE "ont_only",
              hifi |-> IF has_hifi THEN ProcessedData(hifi_depths, w, threshold)
                       ELSE NotProcessed,
              ont |-> IF has_ont THEN ProcessedData(ont_depths, w, threshold)
                      ELSE NotProcessed]

NotCalled == [outcome |-> "not called", steps |-> <<>>, output_file |-> FALSE,
              plot_mode |-> "none", hifi |-> NotProcessed, ont |-> NotProcessed]

-----------------------------------------------------------------------------
(* main: the body of the loop over the reader's tuples                      *)

NoRegionMap == [is_none |-> TRUE, map |-> EmptyMap]
RegionMap(m) == [is_none |-> FALSE, map |-> m]
RegionMapTruthy(r) == ~r.is_none /\ Keys(r.map) # {}

NoTally == [successful |-> 0, failed |-> 0, calls |-> <<>>, raised |-> FALSE]

\* the loop "for region_start, region_end in sequence_regions"; an exception
\* of plot_single_sequence leaves the loop with raised set
RECURSIVE PlotRegions(_, _, _, _, _, _)
PlotRegions(hifi_depths, ont_depths, seq_length, sequence_regions, w, acc) ==
    IF sequence_regions = <<>> THEN acc
    ELSE
      LET region_start == Max(0, Head(sequence_regions)[1])
          region_end == Min(seq_length - 1, Head(sequence_regions)[2])
          region_hifi == IF Len(hifi_depths) > 0
                         THEN Slice(hifi_depths, region_start, region_end + 1) ELSE <<>>
          region_ont == IF Len(ont_depths) > 0
                        THEN Slice(ont_depths, region_start, region_end + 1) ELSE <<>>
          result == PlotSingleSequence(region_hifi, region_ont, w, DefaultMinSafeDepth)
          call == [region |-> <<region_start, region_end>>,
                   hifi_len |-> Len(region_hifi), ont_len |-> Len(region_ont),
                   outcome |-> result.outcome]
      IN  IF region_start > region_end
          THEN PlotRegions(hifi_depths, ont_depths, seq_length,
                           Tail(sequence_regions), w, acc)
          ELSE IF result.outcome = "ValueError"
          THEN [acc EXCEPT !.calls = Append(@, call), !.raised = TRUE]
          ELSE PlotRegions(hifi_depths, ont_depths, seq_length, Tail(sequence_regions), w,
                  [acc EXCEPT !.calls = Append(@, call),
                              !.successful = @ + (IF result.outcome = "path" THEN 1 ELSE 0),
                              !.failed = @ + (IF result.outcome = "path" THEN 0 ELSE 1)])

\* seq_length of the loop body: the HiFi length when there is HiFi data
SeqLength(hifi_depths, ont_depths) ==
    IF Len(hifi_depths) > 0 THEN Len(hifi_depths)
    ELSE IF Len(ont_depths) > 0 THEN Len(ont_depths) ELSE 0

\* one iteration of the loop body: what it adds to the tallies
ProcessOne(seq_id, hifi_depths, ont_depths, rmap, w) ==
    LET seq_length == SeqLength(hifi_depths, ont_depths)
        sequence_regions ==
            IF RegionMapTruthy(rmap) /\ seq_id \in Keys(rmap.map)
            THEN rmap.map[seq_id]
            ELSE << <<0, seq_length - 1>> >>
        t == PlotRegions(hifi_depths, ont_depths, seq_length, sequence_regions, w, NoTally)
    IN  IF seq_length = 0
        THEN [NoTally EXCEPT !.failed = 1]
        ELSE IF t.raised THEN [t EXCEPT !.failed = @ + 1]
        ELSE t

-----------------------------------------------------------------------------
(* integrated_montage: track geometry, panel layout, scale-bar relocation   *)
(* Pixel values are integers.  A scale_y_ratio is kept exact as a number of *)
(* hundredths of a pixel of svg_height: ratio = n / (100 * svg_height).     *)

Abs(n) == IF n < 0 THEN -n ELSE n

\* rects.sort(key=lambda t: t[1]): a stable sort by y
RECURSIVE InsertByY(_, _)
InsertByY(sorted, r) ==
    IF sorted = <<>> THEN <<r>>
    ELSE IF r[2] < Head(sorted)[2] THEN <<r>> \o sorted
    ELSE <<Head(sorted)>> \o InsertByY(Tail(sorted), r)

RECURSIVE SortByY(_)
SortByY(rects) ==
    IF rects = <<>> THEN <<>>
    ELSE InsertByY(SortByY(SubSeq(rects, 1, Len(rects) - 1)), rects[Len(rects)])

\* a row height without the fallback
RowHeightRaw(h_max) == h_max

\* the height recorded for a row: 15 when no member has a height
RowHeight(h_max) == IF h_max > 0 THEN h_max ELSE 15

\* the loop that clusters the sorted rectangles into rows
RECURSIVE ClusterRows(_, _, _, _)
ClusterRows(rects, cur, acc, eps) ==
    IF rects = <<>>
    THEN Append(acc, <<cur.x_left, cur.current_y, cur.x_right - cur.x_left, RowHeight(cur.h_max)>>)
    ELSE LET r == Head(rects)
         IN  IF Abs(r[2] - cur.current_y) < eps
             THEN ClusterRows(Tail(rects),
                     [cur EXCEPT !.x_left = Min(@, r[1]),
                                 !.x_right = Max(@, r[1] + r[3]),
                                 !.h_max = Max(@, r[4])],
                     acc, eps)
             ELSE ClusterRows(Tail(rects),
                     [current_y |-> r[2], x_left |-> r[1], x_right |-> r[1] + r[3],
                      h_max |-> r[4]],
                     Append(acc, <<cur.x_left, cur.current_y, cur.x_right - cur.x_left,
                                   RowHeight(cur.h_max)>>), eps)

\* _collect_chro_tracks: one (x_left, y_top, width, height) per row; eps is
\* the 1e-6 of the row test in the unit the y coordinates are given in
CollectChroTracksIn(rects, eps) ==
    IF rects = <<>> THEN <<>>
    ELSE LET sorted == SortByY(rects)
             first == Head(sorted)
         IN  ClusterRows(Tail(sorted),
                [current_y |-> first[2], x_left |-> first[1],
                 x_right |-> first[1] + first[3], h_max |-> Max(0, first[4])],
                <<>>, eps)

\* _collect_chro_tracks on whole-pixel coordinates: two whole numbers differ
\* by less than 1e-6 exactly when they differ by less than 1
CollectChroTracks(rects) == CollectChroTracksIn(rects, 1)

\* Binary floating point, round to nearest with ties to even, as Python's
\* float does it; the significand has MantissaBits bits (53 in the program).
\* A float is kept as the exact fraction num / den.
MantissaBits == 4

RoundHalfEven(n, d) ==
    LET q == n \div d
        r == n % d
    IN  IF 2 * r < d THEN q
        ELSE IF 2 * r > d THEN q + 1
        ELSE IF q % 2 = 0 THEN q ELSE q + 1

RECURSIVE FRoundPos(_, _)
FRoundPos(n, d) ==
    IF n = 0 THEN [num |-> 0, den |-> 1]
    ELSE IF n < d * 2^(MantissaBits - 1)
    THEN LET h == FRoundPos(2 * n, d) IN [num |-> h.num, den |-> 2 * h.den]
    ELSE IF n >= d * 2^MantissaBits
    THEN LET h == FRoundPos(n, 2 * d) IN [num |-> 2 * h.num, den |-> h.den]
    ELSE [num |-> RoundHalfEven(n, d), den |-> 1]

\* the float nearest to the fraction n / d (d > 0)
FRound(n, d) ==
    IF n < 0
    THEN LET h == FRoundPos(-n, d) IN [num |-> -h.num, den |-> h.den]
    ELSE FRoundPos(n, d)

FAdd(a, b) == FRound(a.num * b.den + b.num * a.den, a.den * b.den)
FSub(a, b) == FRound(a.num * b.den - b.num * a.den, a.den * b.den)
FMul(a, b) == FRound(a.num * b.num, a.den * b.den)
FDivInt(i, j) == FRound(i, j)
FEq(a, b) == a.num * b.den = b.num * a.den

\* _scale_x_by_length
ScaleXByLength(indexes, total_length, x_left, x_right) ==
    IF indexes = <<>> THEN <<>>
    ELSE IF total_length <= 1 THEN [k \in 1..Len(indexes) |-> x_left]
    ELSE LET span == FSub(x_right, x_left)
         IN  [k \in 1..Len(indexes) |->
                FAdd(x_left, FMul(FDivInt(indexes[k], total_length - 1), span))]

NoBox == <<>>
NoGap == -1

\* int(round(depth_height * 0.1)): Python rounds a half to the even integer
RoundTenth(n) ==
    LET q == n \div 10
        r == n % 10
    IN  IF r < 5 THEN q
        ELSE IF r > 5 THEN q + 1
        ELSE IF q % 2 = 0 THEN q ELSE q + 1

PanelGap(a) ==
    IF a.panel_gap # NoGap THEN a.panel_gap ELSE Max(1, RoundTenth(a.depth_height))

\* the track taken as the bottom row
BottomTrack(trs) == IF Len(trs) > 1 THEN trs[2] ELSE trs[1]

\* the panel positions computed from the track rows
PanelLayout(trs, a) ==
    LET top_track == trs[1]
        bottom_track == BottomTrack(trs)
        block_y_top0 == top_track[2] - PanelGap(a) - 2 * a.depth_height
        block_y_bottom0 == bottom_track[2] + bottom_track[4] + PanelGap(a)
        shift == IF block_y_top0 < 0 THEN -block_y_top0 ELSE 0
        top_margin == Max(0, a.top_margin)
    IN  [x_left_top |-> top_track[1],
         x_right_top |-> top_track[1] + top_track[3],
         x_left_bottom |-> bottom_track[1],
         x_right_bottom |-> bottom_track[1] + bottom_track[3],
         h_top |-> top_track[4],
         h_bottom |-> bottom_track[4],
         block_y_top |-> block_y_top0 + shift + top_margin,
         block_y_bottom |-> block_y_bottom0 + shift + top_margin,
         y_top |-> top_track[2] + shift + top_margin,
         y_bottom |-> bottom_track[2] + shift + top_margin,
         global_offset |-> shift + top_margin,
         middle_y |-> shift + top_margin]

\* a second pass that forgets the top margin
RenderLayoutNoMargin(trs, a) ==
    LET top_track == trs[1]
        bottom_track == IF Len(trs) > 1 THEN trs[2] ELSE trs[1]
        panel_gap == IF a.panel_gap # NoGap THEN a.panel_gap
                     ELSE Max(1, RoundTenth(a.depth_height))
        block_y_top0 == top_track[2] - panel_gap - 2 * a.depth_height
        block_y_bottom0 == bottom_track[2] + bottom_track[4] + panel_gap
        global_offset0 == IF block_y_top0 < 0 THEN -block_y_top0 ELSE 0
    IN  [x_left_top |-> top_track[1],
         x_right_top |-> top_track[1] + top_track[3],
         x_left_bottom |-> bottom_track[1],
         x_right_bottom |-> bottom_track[1] + bottom_track[3],
         h_top |-> top_track[4],
         h_bottom |-> bottom_track[4],
         block_y_top |-> block_y_top0 + global_offset0,
         block_y_bottom |-> block_y_bottom0 + global_offset0,
         y_top |-> top_track[2] + global_offset0,
         y_bottom |-> bottom_track[2] + global_offset0,
         global_offset |-> global_offset0,
         middle_y |-> global_offset0]

\* the second pass over the tracks, made for rendering: the track variables
\* are unpacked again and the row-anchored layout is computed once more
RenderLayout(trs, a) ==
    LET top_track == trs[1]
        bottom_track == IF Len(trs) > 1 THEN trs[2] ELSE trs[1]
        panel_gap == IF a.panel_gap # NoGap THEN a.panel_gap
                     ELSE Max(1, RoundTenth(a.depth_height))
        block_y_top0 == top_track[2] - panel_gap - 2 * a.depth_height
        block_y_bottom0 == bottom_track[2] + bottom_track[4] + panel_gap
        global_offset0 == IF block_y_top0 < 0 THEN -block_y_top0 ELSE 0
        top_margin == Max(0, a.top_margin)
        added == IF top_margin > 0 THEN top_margin ELSE 0
    IN  [x_left_top |-> top_track[1],
         x_right_top |-> top_track[1] + top_track[3],
         x_left_bottom |-> bottom_track[1],
         x_right_bottom |-> bottom_track[1] + bottom_track[3],
         h_top |-> top_track[4],
         h_bottom |-> bottom_track[4],
         block_y_top |-> block_y_top0 + global_offset0 + added,
         block_y_bottom |-> block_y_bottom0 + global_offset0 + added,
         y_top |-> top_track[2] + global_offset0 + added,
         y_bottom |-> bottom_track[2] + global_offset0 + added,
         global_offset |-> global_offset0 + added,
         middle_y |-> global_offset0 + added]

\* _overlaps on two (x1, y1, x2, y2) rectangles
Overlaps(a, b) == ~(a[3] <= b[1] \/ b[3] <= a[1] \/ a[4] <= b[2] \/ b[4] <= a[2])

\* _scale_bbox_abs: the scale box of a render in composite coordinates
ScaleBboxAbs(render, middle_y) ==
    IF render.scale = NoBox THEN NoBox
    ELSE <<render.scale[1], render.scale[2] + middle_y,
           render.scale[1] + render.scale[3],
           render.scale[2] + render.scale[4] + middle_y>>

\* _depth_rects: the two combined depth panels
DepthRects(lay, a) ==
    {<<lay.x_left_top, lay.block_y_top, lay.x_right_top, lay.block_y_top + 2 * a.depth_height>>,
     <<lay.x_left_bottom, lay.block_y_bottom, lay.x_right_bottom,
       lay.block_y_bottom + 2 * a.depth_height>>}

\* any(_overlaps(...) for ... in depth_rects) on the scale box of a render
HitsDepth(render, lay, a) ==
    /\ ScaleBboxAbs(render, lay.middle_y) # NoBox
    /\ \E rect \in DepthRects(lay, a) : Overlaps(ScaleBboxAbs(render, lay.middle_y), rect)

\* a candidate test that takes the first render whatever its scale box
AcceptRenderFirst(render, lay, a) == TRUE

\* a candidate render is taken when it has no scale bar or its box is clear
AcceptRender(render, lay, a) ==
    \/ ScaleBboxAbs(render, lay.middle_y) = NoBox
    \/ ~HitsDepth(render, lay, a)

RatioOf(hundredths, a) == Max(0, Min(100 * a.svg_height, hundredths))
FixedRatio(percent, a) == percent * a.svg_height

\* default_hits_depth: is the default scale position inside a panel's extent
DefaultHitsDepth(lay, a) ==
    LET default_abs_y == 100 * lay.middle_y + a.scale_y_ratio
        top1 == 100 * lay.block_y_top
        top2 == 100 * (lay.block_y_top + 2 * a.depth_height)
        bot1 == 100 * lay.block_y_bottom
        bot2 == 100 * (lay.block_y_bottom + 2 * a.depth_height)
    IN  \/ (top1 <= default_abs_y /\ default_abs_y <= top2)
        \/ (bot1 <= default_abs_y /\ default_abs_y <= bot2)

\* gap between the two track rows, in hundredths
GapHundredths(lay) == Max(0, 100 * (lay.y_bottom - (lay.y_top + lay.h_top)))

\* safe_ratio: 75% into the gap, at least 10 px above the bottom row
SafeRatio(lay, a) ==
    RatioOf(Min(100 * (lay.y_bottom - 10),
                100 * (lay.y_top + lay.h_top) + (75 * GapHundredths(lay)) \div 100), a)

\* a candidate list that tries the last ratio once more
DefaultHitCandidatesRetry(lay, a) ==
    <<RatioOf(100 * (lay.y_top + lay.h_top) + (60 * GapHundredths(lay)) \div 100, a),
      RatioOf(100 * (lay.y_top + lay.h_top) + (30 * GapHundredths(lay)) \div 100, a),
      FixedRatio(95, a), FixedRatio(95, a)>>

\* the ratios tried when the safe render still hits a panel
DefaultHitCandidates(lay, a) ==
    <<RatioOf(100 * (lay.y_top + lay.h_top) + (60 * GapHundredths(lay)) \div 100, a),
      RatioOf(100 * (lay.y_top + lay.h_top) + (30 * GapHundredths(lay)) \div 100, a),
      FixedRatio(95, a)>>

\* the ratios tried when only the parsed box hits a panel
ParsedHitCandidates(a) == <<FixedRatio(42, a), FixedRatio(12, a), FixedRatio(95, a)>>

-----------------------------------------------------------------------------
(* integrated_montage: build_bars_for_seq.  Numbers are exact fractions     *)
(* num / den with den > 0.                                                  *)

Q(n, d) == [num |-> n, den |-> d]
QAdd(a, b) == Q(a.num * b.den + b.num * a.den, a.den * b.den)
QSub(a, b) == Q(a.num * b.den - b.num * a.den, a.den * b.den)
QMul(a, b) == Q(a.num * b.num, a.den * b.den)
\* a / b for b > 0
QDiv(a, b) == Q(a.num * b.den, a.den * b.num)
QLe(a, b) == a.num * b.den <= b.num * a.den
QLt(a, b) == a.num * b.den < b.num * a.den
QMin(a, b) == IF QLe(a, b) THEN a ELSE b
QMax(a, b) == IF QLe(b, a) THEN a ELSE b

\* values of an array that are > 0
RECURSIVE NonZeroValues(_)
NonZeroValues(arr) ==
    IF arr = <<>> THEN <<>>
    ELSE (IF Head(arr) > 0 THEN <<Head(arr)>> ELSE <<>>) \o NonZeroValues(Tail(arr))

\* avg_h_nonzero, avg_n_nonzero
NonZeroMean(arr) ==
    IF Len(NonZeroValues(arr)) > 0 THEN Mean(NonZeroValues(arr)) ELSE Q(0, 1)

\* cap_h, cap_n
DatasetCap(avg_nonzero, max_ratio) ==
    IF QLt(Q(0, 1), avg_nonzero) THEN QMul(avg_nonzero, max_ratio) ELSE Q(0, 1)

\* global_cap
GlobalCap(cap_h, cap_n) ==
    IF QLe(QMax(cap_h, cap_n), Q(0, 1)) THEN Q(1, 1) ELSE QMax(cap_h, cap_n)

\* a clamp that ignores the dataset's own cap
OwnCapUnclamped(cap, global_cap) == Q(MaxDepthValue, 1)

\* hifi_cap, ont_cap
OwnCap(cap, global_cap) == IF QLt(Q(0, 1), cap) THEN cap ELSE global_cap

\* sum(means) / len(means) if len(means) > 0 else 0.0
RECURSIVE QSum(_)
QSum(qs) == IF qs = <<>> THEN Q(0, 1) ELSE QAdd(Head(qs), QSum(Tail(qs)))
MeanOfMeans(means) ==
    IF Len(means) > 0 THEN QDiv(QSum(means), Q(Len(means), 1)) ELSE Q(0, 1)

NoLine == <<>>

\* one half of a combined panel: background rectangles, bars and mean line of
\* one dataset; above is TRUE for the HiFi half drawn over the baseline
HalfPanel(arr, seq_len, own_cap, global_cap, baseline_y, above, a) ==
    LET stats == CalculateWindowedStats(arr, a.window_size)
        region_lists == ProcessorDepthRegions(arr, a.min_safe_depth)
        span == QSub(a.x_right, a.x_left)
        den == Q(Max(1, seq_len - 1), 1)
        depth_height == Q(a.depth_height, 1)
        XOf(pos) == QAdd(a.x_left, QMul(QDiv(pos, den), span))
        Bg(reg) == [x |-> XOf(Q(reg[1], 1)),
                    y |-> IF above THEN QSub(baseline_y, depth_height) ELSE baseline_y,
                    width |-> QMax(Q(0, 1), QSub(XOf(Q(reg[2], 1)), XOf(Q(reg[1], 1)))),
                    height |-> depth_height]
        BgOf(list) == SelectSeq([k \in 1..Len(list) |-> Bg(list[k])],
                                LAMBDA r : QLt(Q(0, 1), r.width))
        Bar(k) ==
            LET center == Q(stats.starts[k] + stats.ends[k], 2)
                width_bp == Q(stats.ends[k] - stats.starts[k] + 1, 1)
                x_center == XOf(center)
                w_px == QMul(span, QDiv(width_bp, den))
                m_clamped == QMin(stats.means[k], own_cap)
                h_px == QMul(depth_height, QDiv(m_clamped, global_cap))
            IN  [x |-> QSub(x_center, QDiv(w_px, Q(2, 1))),
                 y |-> IF above THEN QSub(baseline_y, h_px) ELSE baseline_y,
                 width |-> w_px,
                 height |-> h_px]
        avg == MeanOfMeans(stats.means)
        mean_offset == QMul(depth_height, QDiv(QMin(avg, own_cap), global_cap))
    IN  [bg |-> BgOf(region_lists.zero) \o BgOf(region_lists.low),
         bars |-> [k \in 1..Len(stats.means) |-> Bar(k)],
         mean |-> IF QLt(Q(0, 1), avg)
                  THEN <<IF above THEN QSub(baseline_y, mean_offset)
                                  ELSE QAdd(baseline_y, mean_offset)>>
                  ELSE NoLine]

NoHalf == [bg |-> <<>>, bars |-> <<>>, mean |-> NoLine]

\* build_bars_for_seq
BuildBarsForSeq(hifi_arr, ont_arr, a) ==
    LET seq_len == Max(Len(hifi_arr), Len(ont_arr))
        cap_h == DatasetCap(NonZeroMean(hifi_arr), a.max_depth_ratio)
        cap_n == DatasetCap(NonZeroMean(ont_arr), a.max_depth_ratio)
        global_cap == GlobalCap(cap_h, cap_n)
        baseline_y == QAdd(a.panel_origin_y, Q(a.depth_height, 1))
        top == IF Len(hifi_arr) > 0
               THEN HalfPanel(hifi_arr, seq_len, OwnCap(cap_h, global_cap), global_cap,
                              baseline_y, TRUE, a)
               ELSE NoHalf
        bottom == IF Len(ont_arr) > 0
                  THEN HalfPanel(ont_arr, seq_len, OwnCap(cap_n, global_cap), global_cap,
                                 baseline_y, FALSE, a)
                  ELSE NoHalf
    IN  IF seq_len = 0
        THEN [bg_elems |-> <<>>, bars_top |-> <<>>, bars_bottom |-> <<>>,
              mean_top |-> NoLine, mean_bottom |-> NoLine, global_cap |-> Q(1, 1),
              baseline_y |-> baseline_y]
        ELSE [bg_elems |-> top.bg \o bottom.bg, bars_top |-> top.bars,
              bars_bottom |-> bottom.bars, mean_top |-> top.mean,
              mean_bottom |-> bottom.mean, global_cap |-> global_cap,
              baseline_y |-> baseline_y]

-----------------------------------------------------------------------------
(* DepthParser: one call of parse_depth_file_filtered on a fresh parser     *)

MaxLines == 4

ParserIds == {"chr1", "chr2"}
ParserValues == {-1, 0, 7, 70000}
ParserLineSet ==
    {Header(id) : id \in ParserIds} \cup {Value(n) : n \in ParserValues} \cup {Junk}
ParserFiles == SeqsUpTo(ParserLineSet, MaxLines)
ParserTargets == SUBSET (ParserIds \cup {"chr9"})

ParserIdle ==
    /\ p_file = <<>>
    /\ p_targets = {}
    /\ p_pc = "idle"
    /\ p_sequences = EmptyMap
    /\ p_mean_depths = EmptyMap

ParserInit ==
    /\ p_file \in ParserFiles
    /\ p_targets \in ParserTargets
    /\ p_pc = "ready"
    /\ p_sequences = EmptyMap
    /\ p_mean_depths = EmptyMap

ParseCall ==
    /\ p_pc = "ready"
    /\ p_sequences' = ParseDepthFileFiltered(p_file, p_targets)
    /\ p_mean_depths' = MeanDepths(p_sequences')
    /\ p_pc' = "returned"
    /\ UNCHANGED <<p_file, p_targets>>

-----------------------------------------------------------------------------
(* SynchronizedDepthReader.read_sequences                                   *)

NoFile == <<[kind |-> "nofile", id |-> "", v |-> 0]>>
NoRegions == [is_none |-> TRUE, keys |-> {}]
RegionsOf(keys) == [is_none |-> FALSE, keys |-> keys]
RegionsTruthy(r) == ~r.is_none /\ r.keys # {}

ReaderMaxBlocks == 2

\* reading this line raises (a truncated gzip stream, undecodable bytes); as
\* the first line of a file: opening the file raises
ReadError == [kind |-> "ioerror", id |-> "", v |-> 0]

HifiIds == {"chr1", "chr2"}
OntIds == {"chr2", "chr3"}
ReaderIds == HifiIds \cup OntIds
ReaderBodies == {<<>>, <<Value(7)>>}
ReaderBlocks(ids) ==
    {<<Header(id)>> \o b : id \in ids, b \in ReaderBodies} \cup {<<ReadError>>}
ReaderFiles(ids) == {Flatten(bs) : bs \in SeqsUpTo(ReaderBlocks(ids), ReaderMaxBlocks)}
ReaderTargets == {{}, {"chr2", "chr3"}}
ReaderRegions == {NoRegions, RegionsOf({}), RegionsOf({"chr1", "chr2"})}

ReaderIdle ==
    /\ hifi_file = NoFile
    /\ ont_file = NoFile
    /\ target_sequences = {}
    /\ regions = NoRegions
    /\ r_pc = "idle"
    /\ hifi_map = EmptyMap
    /\ ont_map = EmptyMap
    /\ seq_ids = {}
    /\ processed_sequences = {}
    /\ yielded = <<>>

ReaderInit ==
    /\ hifi_file \in ReaderFiles(HifiIds) \cup {NoFile}
    /\ ont_file \in ReaderFiles(OntIds) \cup {NoFile}
    /\ target_sequences \in ReaderTargets
    /\ regions \in ReaderRegions
    /\ r_pc = "start"
    /\ hifi_map = EmptyMap
    /\ ont_map = EmptyMap
    /\ seq_ids = {}
    /\ processed_sequences = {}
    /\ yielded = <<>>

\* the parser raises while it opens or reads the file
ParseRaises(file) == \E k \in 1..Len(file) : file[k].kind = "ioerror"

\* a source that keeps what was committed before the parser raised
SourceMapPartial(file, targets) ==
    IF file = NoFile THEN EmptyMap
    ELSE IF ParseRaises(file)
    THEN LET e == CHOOSE k \in 1..Len(file) :
                    /\ file[k].kind = "ioerror"
                    /\ \A j \in 1..(k - 1) : file[j].kind # "ioerror"
         IN  ParseDepthFileFiltered(SubSeq(file, 1, e - 1), targets)
    ELSE ParseDepthFileFiltered(file, targets)

\* the map one source contributes: {} when the file is not given, and {}
\* when the parser raises, since the exception is caught before the
\* assignment
SourceMap(file, targets) ==
    IF file = NoFile THEN EmptyMap
    ELSE IF ParseRaises(file) THEN EmptyMap
    ELSE ParseDepthFileFiltered(file, targets)

\* seq_ids of read_sequences
SeqIdsToYield(targets, hmap, omap) ==
    IF targets # {} THEN targets ELSE Keys(hmap) \cup Keys(omap)

\* a filter that looks at the targets only
ShouldProcessTargetsOnly(seq_id) ==
    ~(target_sequences # {} /\ seq_id \notin target_sequences)

ShouldProcessSequence(seq_id) ==
    /\ ~(target_sequences # {} /\ seq_id \notin target_sequences)
    /\ ~(RegionsTruthy(regions) /\ seq_id \notin regions.keys)

\* the array yielded for one source
ArrayFor(map, seq_id) == IF seq_id \in Keys(map) THEN map[seq_id] ELSE <<>>

\* the body of read_sequences up to the loop: both sources are parsed
ReadParse ==
    /\ r_pc = "start"
    /\ hifi_map' = SourceMap(hifi_file, target_sequences)
    /\ ont_map' = SourceMap(ont_file, target_sequences)
    /\ seq_ids' = SeqIdsToYield(target_sequences, hifi_map', ont_map')
    /\ r_pc' = "yielding"
    /\ UNCHANGED <<hifi_file, ont_file, target_sequences, regions,
                   processed_sequences, yielded>>

\* one iteration of the loop that yields
ReadYield ==
    /\ r_pc = "yielding"
    /\ \E seq_id \in seq_ids :
         /\ ShouldProcessSequence(seq_id)
         /\ processed_sequences' = processed_sequences \cup {seq_id}
         /\ yielded' = Append(yielded,
                [seq_id |-> seq_id,
                 hifi |-> ArrayFor(hifi_map, seq_id),
                 ont |-> ArrayFor(ont_map, seq_id)])
         /\ seq_ids' = seq_ids \ {seq_id}
    /\ UNCHANGED <<hifi_file, ont_file, target_sequences, regions, r_pc,
                   hifi_map, ont_map>>

\* one iteration of the loop that hits "continue"
ReadSkip ==
    /\ r_pc = "yielding"
    /\ \E seq_id \in seq_ids :
         /\ ~ShouldProcessSequence(seq_id)
         /\ seq_ids' = seq_ids \ {seq_id}
    /\ UNCHANGED <<hifi_file, ont_file, target_sequences, regions, r_pc,
                   hifi_map, ont_map, processed_sequences, yielded>>

\* the loop is exhausted and the generator returns
ReadEnd ==
    /\ r_pc = "yielding"
    /\ seq_ids = {}
    /\ r_pc' = "ended"
    /\ UNCHANGED <<hifi_file, ont_file, target_sequences, regions,
                   hifi_map, ont_map, seq_ids, processed_sequences, yielded>>

YieldedIds == {yielded[i].seq_id : i \in 1..Len(yielded)}
YieldCount(id) == Cardinality({i \in 1..Len(yielded) : yielded[i].seq_id = id})
YieldOf(id) == yielded[CHOOSE i \in 1..Len(yielded) : yielded[i].seq_id = id]

-----------------------------------------------------------------------------
(* Windowing engine: both window modes applied to one array                 *)

MaxLen == 5
MaxVal == 2
MaxW == 6

DepthArrays == SeqsUpTo(0..MaxVal, MaxLen)

WindowIdle ==
    /\ w_depths = <<>>
    /\ window_size = 1
    /\ w_done = {"idle"}
    /\ w_stats = NoWindows
    /\ w_sliding = [positions |-> <<>>, avg_depths |-> <<>>]

WindowInit ==
    /\ w_depths \in DepthArrays
    /\ window_size \in 1..MaxW
    /\ w_done = {}
    /\ w_stats = NoWindows
    /\ w_sliding = [positions |-> <<>>, avg_depths |-> <<>>]

WindowedStatsCall ==
    /\ "idle" \notin w_done
    /\ "stats" \notin w_done
    /\ w_stats' = CalculateWindowedStats(w_depths, window_size)
    /\ w_done' = w_done \cup {"stats"}
    /\ UNCHANGED <<w_depths, window_size, w_sliding>>

SlidingWindowCall ==
    /\ "idle" \notin w_done
    /\ "sliding" \notin w_done
    /\ w_sliding' = CalculateSlidingWindow(w_depths, window_size)
    /\ w_done' = w_done \cup {"sliding"}
    /\ UNCHANGED <<w_depths, window_size, w_stats>>

-----------------------------------------------------------------------------
(* Region classifier: DepthRegionAnalyzer.analyze_depth_regions             *)

RegMaxLen == 3
RegMaxVal == 2
MaxT == 3

RegionArrays == SeqsUpTo(0..RegMaxVal, RegMaxLen)

RegionIdle ==
    /\ g_hifi = <<>>
    /\ g_ont = <<>>
    /\ min_safe_depth = 5
    /\ g_pc = "idle"
    /\ g_regions = [zero_depth |-> <<>>, low_depth |-> <<>>, normal_depth |-> <<>>]

\* two non-empty arrays of one sequence have one length (numpy adds them)
RegionInit ==
    /\ g_hifi \in RegionArrays
    /\ g_ont \in {a \in RegionArrays : Len(a) = 0 \/ Len(g_hifi) = 0 \/ Len(a) = Len(g_hifi)}
    /\ min_safe_depth \in 0..MaxT
    /\ g_pc = "ready"
    /\ g_regions = [zero_depth |-> <<>>, low_depth |-> <<>>, normal_depth |-> <<>>]

AnalyzeCall ==
    /\ g_pc = "ready"
    /\ g_regions' = AnalyzeDepthRegions(g_hifi, g_ont, min_safe_depth)
    /\ g_pc' = "returned"
    /\ UNCHANGED <<g_hifi, g_ont, min_safe_depth>>

-----------------------------------------------------------------------------
(* One call of plot_single_sequence                                         *)

PlotMaxLen == 3

PlotValues == {0, 3}
PlotArrays == SeqsUpTo(PlotValues, PlotMaxLen)
PlotWindowSizes == {1, 2}

PlotIdle ==
    /\ pl_hifi = <<>>
    /\ pl_ont = <<>>
    /\ pl_window_size = 1
    /\ pl_pc = "idle"
    /\ pl_result = NotCalled

PlotInit ==
    /\ pl_hifi \in PlotArrays
    /\ pl_ont \in PlotArrays
    /\ pl_window_size \in PlotWindowSizes
    /\ pl_pc = "ready"
    /\ pl_result = NotCalled

PlotCall ==
    /\ pl_pc = "ready"
    /\ pl_result' = PlotSingleSequence(pl_hifi, pl_ont, pl_window_size, DefaultMinSafeDepth)
    /\ pl_pc' = "returned"
    /\ UNCHANGED <<pl_hifi, pl_ont, pl_window_size>>

-----------------------------------------------------------------------------
(* main: the processing loop                                                *)

MainIds == {"chr1", "chr2"}
MainRegionChoices ==
    {NoRegionMap,
     RegionMap("chr1" :> << <<0, 1>> >>),
     RegionMap(("chr1" :> << <<1, 9>>, <<3, 2>> >>) @@ ("chr2" :> << <<0, 0>>, <<2, 3>> >>))}

\* target_sequences of main: the keys of the regions, else the FAI sequences
MainTargets(rmap) == IF RegionMapTruthy(rmap) THEN Keys(rmap.map) ELSE MainIds

MainIdle ==
    /\ regions_to_use = NoRegionMap
    /\ m_window_size = 1
    /\ m_pending = {}
    /\ successful = 0
    /\ failed = 0
    /\ m_log = <<>>
    /\ m_pc = "idle"

MainInit ==
    /\ regions_to_use \in MainRegionChoices
    /\ m_window_size \in PlotWindowSizes
    /\ m_pending = MainTargets(regions_to_use)
    /\ successful = 0
    /\ failed = 0
    /\ m_log = <<>>
    /\ m_pc = "loop"

\* a loop that stops asking the reader once an iteration has failed
ProcessSequenceAborting ==
    /\ m_pc = "loop"
    /\ \E seq_id \in m_pending, hifi_depths \in PlotArrays, ont_depths \in PlotArrays :
         LET t == ProcessOne(seq_id, hifi_depths, ont_depths, regions_to_use, m_window_size)
         IN  /\ successful' = successful + t.successful
             /\ failed' = failed + t.failed
             /\ m_log' = Append(m_log,
                    [seq_id |-> seq_id, hifi_len |-> Len(hifi_depths),
                     ont_len |-> Len(ont_depths), successful |-> t.successful,
                     failed |-> t.failed, raised |-> t.raised, calls |-> t.calls])
             /\ m_pending' = IF t.failed > 0 THEN {} ELSE m_pending \ {seq_id}
    /\ UNCHANGED <<regions_to_use, m_window_size, m_pc>>

\* the reader yields one more tuple and the loop body runs on it
ProcessSequence ==
    /\ m_pc = "loop"
    /\ \E seq_id \in m_pending, hifi_depths \in PlotArrays, ont_depths \in PlotArrays :
         LET t == ProcessOne(seq_id, hifi_depths, ont_depths, regions_to_use, m_window_size)
         IN  /\ successful' = successful + t.successful
             /\ failed' = failed + t.failed
             /\ m_log' = Append(m_log,
                    [seq_id |-> seq_id, hifi_len |-> Len(hifi_depths),
                     ont_len |-> Len(ont_depths), successful |-> t.successful,
                     failed |-> t.failed, raised |-> t.raised, calls |-> t.calls])
             /\ m_pending' = m_pending \ {seq_id}
    /\ UNCHANGED <<regions_to_use, m_window_size, m_pc>>

\* the reader is exhausted: the totals are printed
MainReport ==
    /\ m_pc = "loop"
    /\ m_pending = {}
    /\ m_pc' = "reported"
    /\ UNCHANGED <<regions_to_use, m_window_size, m_pending, successful, failed, m_log>>

-----------------------------------------------------------------------------
(* integrated_montage.run: render, relocate the scale bar, compose          *)

NoLayout == <<>>
NoRender == [ratio |-> -1, rects |-> <<>>, scale |-> NoBox]
NoComposite == [inner |-> NoRender, tracks |-> <<>>, layout |-> NoLayout, written |-> FALSE]

RunSvgHeights == {80, 100}
RunTopMargins == {-3, 0, 4}
RunPanelGaps == {NoGap, 3}
RunFormats == {"svg", "pdf"}

\* the arguments of the layout and the search, with the default output options
RunArgs ==
    {[svg_height |-> sh, depth_height |-> 10, panel_gap |-> pg, top_margin |-> tm,
      scale_y_ratio |-> 90 * sh, output_format |-> "svg", keep_tmp |-> FALSE] :
        sh \in RunSvgHeights, pg \in RunPanelGaps, tm \in RunTopMargins}

\* the layout arguments with no top margin and no explicit panel gap
RunFairArgs == {a \in RunArgs : a.top_margin = 0 /\ a.panel_gap = NoGap}

\* every output option, for one choice of the layout arguments
RunOutputArgs ==
    {[svg_height |-> 80, depth_height |-> 10, panel_gap |-> NoGap, top_margin |-> 0,
      scale_y_ratio |-> 90 * 80, output_format |-> fmt, keep_tmp |-> kt] :
        fmt \in RunFormats, kt \in BOOLEAN}

\* chro rectangles LINKVIEW may draw: none, one row, two rows, three rows
TrackLayouts ==
    {<<>>,
     << <<10, 30, 90, 5>> >>,
     << <<60, 30, 40, 5>>, <<20, 60, 70, 5>>, <<10, 30, 40, 5>> >>,
     << <<10, 15, 90, 5>>, <<20, 45, 70, 5>>, <<10, 75, 90, 5>> >>}

\* the same chro rectangles drawn five pixels lower
MovedDown(rects) ==
    [k \in 1..Len(rects) |-> <<rects[k][1], rects[k][2] + 5, rects[k][3], rects[k][4]>>]

\* scale-bbox rectangles LINKVIEW may draw (x, y, width, height), or none
ScaleChoices == {NoBox, <<85, 12, 10, 4>>, <<85, 40, 10, 4>>, <<85, 68, 10, 4>>}

\* the two target chromosomes and the depth files run may be given
RunChr1 == "chr1"
RunChr2 == "chr2"
RunDepthFiles ==
    {NoFile, <<Header("chr1"), Value(3), Value(0), Header("chr2"), Value(4)>>}

\* every scale_y_ratio run can pass to LINKVIEW for these arguments and tracks
RunRatios(a, rects) ==
    IF rects = <<>> THEN {a.scale_y_ratio}
    ELSE LET lay == PanelLayout(CollectChroTracks(rects), a)
             cands == IF DefaultHitsDepth(lay, a)
                      THEN <<SafeRatio(lay, a)>> \o DefaultHitCandidates(lay, a)
                      ELSE ParsedHitCandidates(a)
         IN  {a.scale_y_ratio} \cup {cands[k] : k \in 1..Len(cands)}

\* LV.main followed by _read_file and _extract_inner_svg: the render LINKVIEW
\* produces for one scale_y_ratio
LV(ratio) ==
    [ratio |-> ratio,
     rects |-> IF ratio = args.scale_y_ratio THEN lv_rects ELSE lv_regen_rects,
     scale |-> lv_scale[ratio]]

RunIdle ==
    /\ args = [svg_height |-> 1, depth_height |-> 1, panel_gap |-> NoGap, top_margin |-> 0,
               scale_y_ratio |-> 0, output_format |-> "svg", keep_tmp |-> FALSE]
    /\ lv_rects = <<>>
    /\ lv_regen_rects = <<>>
    /\ out_files = {}
    /\ convert_attempts = <<>>
    /\ warned = FALSE
    /\ lv_scale = EmptyMap
    /\ lv_requests = <<>>
    /\ tmp_svg = NoRender
    /\ inner = NoRender
    /\ inner_new = NoRender
    /\ tracks = <<>>
    /\ layout = NoLayout
    /\ candidates = <<>>
    /\ run_branch = "none"
    /\ depth_by_chr = EmptyMap
    /\ composite = NoComposite
    /\ run_pc = "idle"

RunInitWith(arguments) ==
    /\ args \in arguments
    /\ lv_rects \in TrackLayouts
    /\ lv_regen_rects \in {lv_rects, MovedDown(lv_rects)}
    /\ out_files = {}
    /\ convert_attempts = <<>>
    /\ warned = FALSE
    /\ lv_scale \in [RunRatios(args, lv_rects) -> ScaleChoices]
    /\ lv_requests = <<>>
    /\ tmp_svg = NoRender
    /\ inner = NoRender
    /\ inner_new = NoRender
    /\ tracks = <<>>
    /\ layout = NoLayout
    /\ candidates = <<>>
    /\ run_branch = "none"
    /\ depth_by_chr = EmptyMap
    /\ composite = NoComposite
    /\ run_pc = "start"

RunInit == RunInitWith(RunArgs)
RunFairInit == RunInitWith(RunFairArgs)
RunOutputInit == RunInitWith(RunOutputArgs)

\* the first LINKVIEW render and the track extraction
RunStart ==
    /\ run_pc = "start"
    /\ lv_requests' = Append(lv_requests, args.scale_y_ratio)
    /\ tmp_svg' = LV(args.scale_y_ratio)
    /\ inner' = LV(args.scale_y_ratio)
    /\ tracks' = CollectChroTracks(lv_rects)
    /\ run_pc' = IF CollectChroTracks(lv_rects) = <<>> THEN "raised" ELSE "layout"
    /\ UNCHANGED <<args, lv_rects, lv_regen_rects, lv_scale, outVars, inner_new, layout, candidates, run_branch,
                   depth_by_chr, composite>>

\* the panel layout is computed and the default scale position is tested
RunLayout ==
    /\ run_pc = "layout"
    /\ layout' = PanelLayout(tracks, args)
    /\ IF DefaultHitsDepth(PanelLayout(tracks, args), args)
       THEN /\ run_pc' = "safe"
            /\ run_branch' = "default_hit"
            /\ UNCHANGED candidates
       ELSE IF HitsDepth(inner, PanelLayout(tracks, args), args)
       THEN /\ run_pc' = "search"
            /\ run_branch' = "parsed_hit"
            /\ candidates' = ParsedHitCandidates(args)
       ELSE /\ run_pc' = "read"
            /\ UNCHANGED <<run_branch, candidates>>
    /\ UNCHANGED <<args, lv_rects, lv_regen_rects, lv_scale, outVars, lv_requests, tmp_svg, inner, inner_new, tracks,
                   depth_by_chr, composite>>

\* the default position hits a panel: regenerate at the safe ratio
RunSafeRender ==
    /\ run_pc = "safe"
    /\ lv_requests' = Append(lv_requests, SafeRatio(layout, args))
    /\ tmp_svg' = LV(SafeRatio(layout, args))
    /\ inner_new' = LV(SafeRatio(layout, args))
    /\ IF HitsDepth(LV(SafeRatio(layout, args)), layout, args)
       THEN /\ run_pc' = "search"
            /\ candidates' = DefaultHitCandidates(layout, args)
            /\ UNCHANGED inner
       ELSE /\ run_pc' = "read"
            /\ inner' = LV(SafeRatio(layout, args))
            /\ UNCHANGED candidates
    /\ UNCHANGED <<args, lv_rects, lv_regen_rects, lv_scale, outVars, tracks, layout, run_branch, depth_by_chr,
                   composite>>

\* one iteration of a candidate loop: regenerate, re-extract, test
RunTryCandidate ==
    /\ run_pc = "search"
    /\ candidates # <<>>
    /\ lv_requests' = Append(lv_requests, Head(candidates))
    /\ tmp_svg' = LV(Head(candidates))
    /\ IF AcceptRender(LV(Head(candidates)), layout, args)
       THEN /\ inner' = LV(Head(candidates))
            /\ inner_new' = IF run_branch = "default_hit" THEN LV(Head(candidates))
                                                         ELSE inner_new
            /\ candidates' = <<>>
            /\ run_pc' = "read"
       ELSE /\ candidates' = Tail(candidates)
            /\ UNCHANGED inner_new
            /\ IF Tail(candidates) = <<>>
               THEN /\ run_pc' = "read"
                    /\ inner' = IF run_branch = "default_hit" THEN inner_new ELSE inner
               ELSE /\ run_pc' = "search"
                    /\ UNCHANGED inner
    /\ UNCHANGED <<args, lv_rects, lv_regen_rects, lv_scale, outVars, tracks, layout, run_branch, depth_by_chr,
                   composite>>

\* _read_one: the arrays the reader yields for one sequence ID
ReadOne(seq_id, hf, nf) ==
    <<ArrayFor(SourceMap(hf, {seq_id}), seq_id), ArrayFor(SourceMap(nf, {seq_id}), seq_id)>>

\* a depth read that is also done after the render has failed
RunReadDepthAfterRaise ==
    /\ run_pc \in {"read", "raised"}
    /\ \E hf \in RunDepthFiles, nf \in RunDepthFiles :
         depth_by_chr' = (RunChr1 :> ReadOne(RunChr1, hf, nf))
                            @@ (RunChr2 :> ReadOne(RunChr2, hf, nf))
    /\ run_pc' = IF run_pc = "raised" THEN "raised" ELSE "compose"
    /\ UNCHANGED <<args, lv_rects, lv_regen_rects, lv_scale, outVars, lv_requests, tmp_svg, inner, inner_new,
                   tracks, layout, candidates, run_branch, composite>>

\* the depth sources are read for the two target chromosomes
RunReadDepth ==
    /\ run_pc = "read"
    /\ \E hf \in RunDepthFiles, nf \in RunDepthFiles :
         depth_by_chr' = (RunChr1 :> ReadOne(RunChr1, hf, nf))
                            @@ (RunChr2 :> ReadOne(RunChr2, hf, nf))
    /\ run_pc' = "compose"
    /\ UNCHANGED <<args, lv_rects, lv_regen_rects, lv_scale, outVars, lv_requests, tmp_svg, inner, inner_new,
                   tracks, layout, candidates, run_branch, composite>>

\* the composite SVG is assembled around the render held by inner
RunCompose ==
    /\ run_pc = "compose"
    /\ composite' = [inner |-> inner, tracks |-> tracks,
                     layout |-> RenderLayout(tracks, args), written |-> TRUE]
    /\ out_files' = out_files \cup {"svg"}
    /\ run_pc' = "composed"
    /\ UNCHANGED <<args, lv_rects, lv_regen_rects, lv_scale, lv_requests, tmp_svg, inner,
                   inner_new, tracks, layout, candidates, run_branch, depth_by_chr,
                   convert_attempts, warned>>

Attempt(tool, ok) == [tool |-> tool, ok |-> ok]

\* the converters run for a PDF: inkscape only in the except branch of cairosvg
ConvertAttempts(cairosvg_ok, inkscape_ok) ==
    IF cairosvg_ok THEN <<Attempt("cairosvg", TRUE)>>
    ELSE <<Attempt("cairosvg", FALSE), Attempt("inkscape", inkscape_ok)>>

Converted(attempts) == \E k \in 1..Len(attempts) : attempts[k].ok

\* "keep only one output file": the PDF conversion and the removal of the SVG;
\* each converter may succeed or fail, and os.remove may raise
RunConvert ==
    /\ run_pc = "composed"
    /\ IF args.output_format = "pdf"
       THEN \E cairosvg_ok \in BOOLEAN, inkscape_ok \in BOOLEAN, removed \in BOOLEAN :
              /\ convert_attempts' = ConvertAttempts(cairosvg_ok, inkscape_ok)
              /\ warned' = ~Converted(ConvertAttempts(cairosvg_ok, inkscape_ok))
              /\ out_files' =
                    IF Converted(ConvertAttempts(cairosvg_ok, inkscape_ok))
                    THEN (IF removed THEN out_files \ {"svg"} ELSE out_files) \cup {"pdf"}
                    ELSE out_files
       ELSE UNCHANGED outVars
    /\ run_pc' = "converted"
    /\ UNCHANGED <<args, lv_rects, lv_regen_rects, lv_scale, lv_requests, tmp_svg, inner,
                   inner_new, tracks, layout, candidates, run_branch, depth_by_chr, composite>>

\* the LINKVIEW temporary file is removed unless keep_tmp; os.remove may raise
RunCleanup ==
    /\ run_pc = "converted"
    /\ IF args.keep_tmp
       THEN UNCHANGED tmp_svg
       ELSE \E removed \in BOOLEAN : tmp_svg' = IF removed THEN NoRender ELSE tmp_svg
    /\ run_pc' = "done"
    /\ UNCHANGED <<args, lv_rects, lv_regen_rects, lv_scale, outVars, lv_requests, inner,
                   inner_new, tracks, layout, candidates, run_branch, depth_by_chr, composite>>

-----------------------------------------------------------------------------
(* Region extraction: both mask scanners applied to one boolean mask        *)

MaskMaxLen == 6

Masks == SeqsUpTo(BOOLEAN, MaskMaxLen)

MaskIdle ==
    /\ mk_mask = <<>>
    /\ mk_done = {"idle"}
    /\ mk_continuous = <<>>
    /\ mk_mask_to = <<>>

MaskInit ==
    /\ mk_mask \in Masks
    /\ mk_done = {}
    /\ mk_continuous = <<>>
    /\ mk_mask_to = <<>>

FindContinuousRegionsCall ==
    /\ "continuous" \notin mk_done
    /\ "idle" \notin mk_done
    /\ mk_continuous' = FindContinuousRegions(mk_mask)
    /\ mk_done' = mk_done \cup {"continuous"}
    /\ UNCHANGED <<mk_mask, mk_mask_to>>

MaskToRegionsCall ==
    /\ "mask_to" \notin mk_done
    /\ "idle" \notin mk_done
    /\ mk_mask_to' = MaskToRegions(mk_mask)
    /\ mk_done' = mk_done \cup {"mask_to"}
    /\ UNCHANGED <<mk_mask, mk_continuous>>

-----------------------------------------------------------------------------
(* _scale_x_by_length: one call                                             *)

ScaleMaxLen == 4

\* the floats with a significand of MantissaBits bits and exponent 0, -1, -2
FloatValues ==
    {[num |-> m, den |-> dd] : m \in 0..(2^MantissaBits - 1), dd \in {1, 2, 4}}
ScaleLengths == 0..ScaleMaxLen
IndexesUpTo(n) == [k \in 1..n |-> k - 1]

ScaleIdle ==
    /\ sx_indexes = <<>>
    /\ sx_total_length = 0
    /\ sx_left = [num |-> 0, den |-> 1]
    /\ sx_right = [num |-> 0, den |-> 1]
    /\ sx_pc = "idle"
    /\ sx_result = <<>>

ScaleInit ==
    /\ sx_total_length \in ScaleLengths
    /\ sx_indexes \in {<<>>, IndexesUpTo(Max(1, sx_total_length))}
    /\ sx_left \in FloatValues
    /\ sx_right \in FloatValues
    /\ (sx_left.den = 1 \/ sx_left.num % 2 = 1)
    /\ (sx_right.den = 1 \/ sx_right.num % 2 = 1)
    /\ sx_left.num * sx_right.den <= sx_right.num * sx_left.den
    /\ sx_pc = "ready"
    /\ sx_result = <<>>

ScaleCall ==
    /\ sx_pc = "ready"
    /\ sx_result' = ScaleXByLength(sx_indexes, sx_total_length, sx_left, sx_right)
    /\ sx_pc' = "returned"
    /\ UNCHANGED <<sx_indexes, sx_total_length, sx_left, sx_right>>

-----------------------------------------------------------------------------
(* _collect_chro_tracks: one call; y is given in halves of the 1e-6 of the  *)
(* row test, x, width and height in pixels                                  *)

TrackMaxRects == 3

\* the 1e-6 of the row test, in the unit of y
TrackEps == 2

TrackRects == {<<x, y, w, h>> : x \in {0, 5}, y \in {0, 1, 2}, w \in {3, 9}, h \in {0, 4}}

TrackIdle ==
    /\ ct_rects = <<>>
    /\ ct_pc = "idle"
    /\ ct_tracks = <<>>

TrackInit ==
    /\ ct_rects \in SeqsUpTo(TrackRects, TrackMaxRects)
    /\ ct_pc = "ready"
    /\ ct_tracks = <<>>

CollectCall ==
    /\ ct_pc = "ready"
    /\ ct_tracks' = CollectChroTracksIn(ct_rects, TrackEps)
    /\ ct_pc' = "returned"
    /\ UNCHANGED ct_rects

-----------------------------------------------------------------------------
(* build_bars_for_seq: one call                                             *)

BarMaxLen == 3

BarHifiArrays == SeqsUpTo({0, 1, 9}, BarMaxLen)
BarOntArrays == SeqsUpTo({0, 9}, BarMaxLen)
BarRatios == {Q(0, 1), Q(1, 2), Q(3, 1)}
BarArgs ==
    {[window_size |-> w, max_depth_ratio |-> ratio, min_safe_depth |-> DefaultMinSafeDepth,
      depth_height |-> 10, x_left |-> Q(20, 1), x_right |-> Q(90, 1),
      panel_origin_y |-> Q(40, 1)] : w \in {1, 2}, ratio \in BarRatios}

BarIdle ==
    /\ bb_hifi = <<>>
    /\ bb_ont = <<>>
    /\ bb_args = [window_size |-> 1, max_depth_ratio |-> Q(0, 1), min_safe_depth |-> 0,
                  depth_height |-> 1, x_left |-> Q(0, 1), x_right |-> Q(0, 1),
                  panel_origin_y |-> Q(0, 1)]
    /\ bb_pc = "idle"
    /\ bb_result = <<>>

BarInit ==
    /\ bb_hifi \in BarHifiArrays
    /\ bb_ont \in BarOntArrays
    /\ bb_args \in BarArgs
    /\ bb_pc = "ready"
    /\ bb_result = <<>>

BuildBarsCall ==
    /\ bb_pc = "ready"
    /\ bb_result' = BuildBarsForSeq(bb_hifi, bb_ont, bb_args)
    /\ bb_pc' = "returned"
    /\ UNCHANGED <<bb_hifi, bb_ont, bb_args>>

PureIdle == MaskIdle /\ ScaleIdle /\ TrackIdle /\ BarIdle
ProgramIdle ==
    ParserIdle /\ ReaderIdle /\ WindowIdle /\ RegionIdle /\ PlotIdle /\ MainIdle /\ RunIdle

-----------------------------------------------------------------------------
(* Specifications                                                           *)

vars == <<programVars, pureVars>>

InitParser == ParserInit /\ ReaderIdle /\ WindowIdle /\ RegionIdle /\ PlotIdle /\ MainIdle /\ RunIdle /\ PureIdle
NextParser ==
    ParseCall /\ UNCHANGED <<readerVars, windowVars, regionVars, plotVars, mainVars, runVars, pureVars>>
SpecParser == InitParser /\ [][NextParser]_vars

InitReader == ReaderInit /\ ParserIdle /\ WindowIdle /\ RegionIdle /\ PlotIdle /\ MainIdle /\ RunIdle /\ PureIdle
NextReader ==
    \/ ReadParse /\ UNCHANGED <<parserVars, windowVars, regionVars, plotVars, mainVars, runVars, pureVars>>
    \/ ReadYield /\ UNCHANGED <<parserVars, windowVars, regionVars, plotVars, mainVars, runVars, pureVars>>
    \/ ReadSkip /\ UNCHANGED <<parserVars, windowVars, regionVars, plotVars, mainVars, runVars, pureVars>>
    \/ ReadEnd /\ UNCHANGED <<parserVars, windowVars, regionVars, plotVars, mainVars, runVars, pureVars>>
SpecReader == InitReader /\ [][NextReader]_vars

InitWindow == WindowInit /\ ParserIdle /\ ReaderIdle /\ RegionIdle /\ PlotIdle /\ MainIdle /\ RunIdle /\ PureIdle
NextWindow ==
    \/ WindowedStatsCall /\ UNCHANGED <<parserVars, readerVars, regionVars, plotVars, mainVars, runVars, pureVars>>
    \/ SlidingWindowCall /\ UNCHANGED <<parserVars, readerVars, regionVars, plotVars, mainVars, runVars, pureVars>>
SpecWindow == InitWindow /\ [][NextWindow]_vars

InitRegion == RegionInit /\ ParserIdle /\ ReaderIdle /\ WindowIdle /\ PlotIdle /\ MainIdle /\ RunIdle /\ PureIdle
NextRegion ==
    AnalyzeCall /\ UNCHANGED <<parserVars, readerVars, windowVars, plotVars, mainVars, runVars, pureVars>>
SpecRegion == InitRegion /\ [][NextRegion]_vars

InitPlot == PlotInit /\ ParserIdle /\ ReaderIdle /\ WindowIdle /\ RegionIdle /\ MainIdle /\ RunIdle /\ PureIdle
NextPlot ==
    PlotCall /\ UNCHANGED <<parserVars, readerVars, windowVars, regionVars, mainVars, runVars, pureVars>>
SpecPlot == InitPlot /\ [][NextPlot]_vars

InitMain ==
    MainInit /\ ParserIdle /\ ReaderIdle /\ WindowIdle /\ RegionIdle /\ PlotIdle /\ RunIdle /\ PureIdle
NextMain ==
    \/ ProcessSequence /\ UNCHANGED <<parserVars, readerVars, windowVars, regionVars, plotVars, runVars, pureVars>>
    \/ MainReport /\ UNCHANGED <<parserVars, readerVars, windowVars, regionVars, plotVars, runVars, pureVars>>
SpecMain == InitMain /\ [][NextMain]_vars

InitRun ==
    RunInit /\ ParserIdle /\ ReaderIdle /\ WindowIdle /\ RegionIdle /\ PlotIdle /\ MainIdle /\ PureIdle
NextRun ==
    \/ RunStart /\ UNCHANGED <<parserVars, readerVars, windowVars, regionVars, plotVars, mainVars, pureVars>>
    \/ RunLayout /\ UNCHANGED <<parserVars, readerVars, windowVars, regionVars, plotVars, mainVars, pureVars>>
    \/ RunSafeRender /\ UNCHANGED <<parserVars, readerVars, windowVars, regionVars, plotVars, mainVars, pureVars>>
    \/ RunTryCandidate /\ UNCHANGED <<parserVars, readerVars, windowVars, regionVars, plotVars, mainVars, pureVars>>
    \/ RunReadDepth /\ UNCHANGED <<parserVars, readerVars, windowVars, regionVars, plotVars, mainVars, pureVars>>
    \/ RunCompose /\ UNCHANGED <<parserVars, readerVars, windowVars, regionVars, plotVars, mainVars, pureVars>>
    \/ RunConvert /\ UNCHANGED <<parserVars, readerVars, windowVars, regionVars, plotVars, mainVars, pureVars>>
    \/ RunCleanup /\ UNCHANGED <<parserVars, readerVars, windowVars, regionVars, plotVars, mainVars, pureVars>>
SpecRun == InitRun /\ [][NextRun]_vars

InitRunOutput ==
    RunOutputInit /\ ParserIdle /\ ReaderIdle /\ WindowIdle /\ RegionIdle /\ PlotIdle /\ MainIdle /\ PureIdle
SpecRunOutput == InitRunOutput /\ [][NextRun]_vars

\* run is one sequential call: once the layout is computed, every later step
\* of it is taken while it is enabled
RunAfterLayout ==
    (RunSafeRender \/ RunTryCandidate \/ RunReadDepth \/ RunCompose \/ RunConvert \/ RunCleanup)
        /\ UNCHANGED <<parserVars, readerVars, windowVars, regionVars, plotVars, mainVars, pureVars>>
InitRunFair ==
    RunFairInit /\ ParserIdle /\ ReaderIdle /\ WindowIdle /\ RegionIdle /\ PlotIdle /\ MainIdle /\ PureIdle
FairSpecRun == InitRunFair /\ [][NextRun]_vars /\ WF_vars(RunAfterLayout)

InitMask == MaskInit /\ ProgramIdle /\ ScaleIdle /\ TrackIdle /\ BarIdle
NextMask ==
    \/ FindContinuousRegionsCall /\ UNCHANGED <<programVars, scaleVars, trackVars, barVars>>
    \/ MaskToRegionsCall /\ UNCHANGED <<programVars, scaleVars, trackVars, barVars>>
SpecMask == InitMask /\ [][NextMask]_vars

InitScale == ScaleInit /\ ProgramIdle /\ MaskIdle /\ TrackIdle /\ BarIdle
NextScale == ScaleCall /\ UNCHANGED <<programVars, maskVars, trackVars, barVars>>
SpecScale == InitScale /\ [][NextScale]_vars

InitTrack == TrackInit /\ ProgramIdle /\ MaskIdle /\ ScaleIdle /\ BarIdle
NextTrack == CollectCall /\ UNCHANGED <<programVars, maskVars, scaleVars, barVars>>
SpecTrack == InitTrack /\ [][NextTrack]_vars

InitBars == BarInit /\ ProgramIdle /\ MaskIdle /\ ScaleIdle /\ TrackIdle
NextBars == BuildBarsCall /\ UNCHANGED <<programVars, maskVars, scaleVars, trackVars>>
SpecBars == InitBars /\ [][NextBars]_vars

-----------------------------------------------------------------------------
(* Claims                                                                   *)

\* C2: parse_depth_file_filtered called with an empty target set returns a
\* store holding every sequence that has a header in the file.
C2_EmptyTargetsMeansAll ==
    (p_pc = "returned" /\ p_targets = {})
        => Keys(p_sequences) = {id \in HeaderIds(p_file) : Truthy(id)}

\* C1: with no target restriction, once read_sequences has ended it has
\* yielded exactly the union of the IDs with a header in either source, each
\* once, an ID of one source alone carrying an empty array for the other.
C1_UnionOfBothSources ==
    (r_pc = "ended" /\ target_sequences = {} /\ ~RegionsTruthy(regions))
        => LET SA == IF hifi_file = NoFile THEN {} ELSE HeaderIds(hifi_file)
               SB == IF ont_file = NoFile THEN {} ELSE HeaderIds(ont_file)
           IN  /\ YieldedIds = SA \cup SB
               /\ \A id \in YieldedIds : YieldCount(id) = 1
               /\ \A id \in SA \ SB : id \in YieldedIds => YieldOf(id).ont = <<>>
               /\ \A id \in SB \ SA : id \in YieldedIds => YieldOf(id).hifi = <<>>

\* C3: in main's loop, a sequence whose two sources yield non-empty arrays
\* of different lengths is surfaced as an error and counted as failed, and
\* no plot of it is produced and counted as successful.
C3_MismatchIsAlwaysAnError ==
    \A k \in 1..Len(m_log) :
        (m_log[k].hifi_len > 0 /\ m_log[k].ont_len > 0
            /\ m_log[k].hifi_len # m_log[k].ont_len)
        => /\ m_log[k].raised
           /\ m_log[k].failed >= 1
           /\ m_log[k].successful = 0

RenderingSteps ==
    {"calculate_windowed_stats", "analyze_depth_regions", "subplots", "_plot_both_data",
     "_plot_single_data", "_setup_plot_properties", "_create_legend", "_save_plot", "close"}

MismatchCase ==
    /\ pl_pc = "returned"
    /\ Len(pl_hifi) > 0
    /\ Len(pl_ont) > 0
    /\ Len(pl_hifi) # Len(pl_ont)

\* C4: plot_single_sequence given non-empty arrays of different lengths
\* raises its length-mismatch error before any window computation, figure
\* creation or other rendering step, and writes no output file.
C4_MismatchRaisesBeforeRendering ==
    MismatchCase =>
        /\ pl_result.outcome = "ValueError"
        /\ \A k \in 1..Len(pl_result.steps) : pl_result.steps[k] \notin RenderingSteps
        /\ ~pl_result.output_file
        /\ pl_result.hifi = NotProcessed
        /\ pl_result.ont = NotProcessed

C4_Witness ==
    /\ MismatchCase
    /\ Len(pl_hifi) = Len(pl_ont) + 1
    /\ pl_result.outcome = "ValueError"

\* ---- helpers of the statements below

\* the intervals of a list that contain index i
Covering(rs, i) == {k \in 1..Len(rs) : rs[k][1] <= i /\ i <= rs[k][2]}

\* every interval of a list lies in [0, n-1] with start <= end
WithinRange(rs, n) == \A k \in 1..Len(rs) : 0 <= rs[k][1] /\ rs[k][1] <= rs[k][2] /\ rs[k][2] <= n - 1

\* the sequence the analyzer classifies
GCombined ==
    IF Len(g_ont) > 0 /\ Len(g_hifi) > 0 THEN AddArrays(g_hifi, g_ont)
    ELSE IF Len(g_ont) > 0 THEN g_ont ELSE g_hifi

\* zero, low and normal intervals partition [0, N-1] and carry their labels
RegionsPartition ==
    LET n == Len(GCombined)
    IN  /\ WithinRange(g_regions.zero_depth, n)
        /\ WithinRange(g_regions.low_depth, n)
        /\ WithinRange(g_regions.normal_depth, n)
        /\ \A i \in 0..(n - 1) :
             /\ Cardinality(Covering(g_regions.zero_depth, i))
                  + Cardinality(Covering(g_regions.low_depth, i))
                  + Cardinality(Covering(g_regions.normal_depth, i)) = 1
             /\ (Covering(g_regions.zero_depth, i) # {}) <=> (GCombined[i + 1] = 0)
             /\ (Covering(g_regions.low_depth, i) # {})
                    <=> (0 < GCombined[i + 1] /\ GCombined[i + 1] < min_safe_depth)
             /\ (Covering(g_regions.normal_depth, i) # {})
                    <=> (GCombined[i + 1] >= min_safe_depth)

\* C5 as stated: for every threshold T the zero, low and normal intervals
\* are pairwise non-overlapping and their union is exactly [0, N-1].
C5_PartitionEveryThreshold == (g_pc = "returned") => RegionsPartition

\* C5 amended: the same for every threshold T >= 1 (with T <= 0 a zero-depth
\* index is in a zero region and in a normal region).
C5_PartitionPositiveThreshold ==
    (g_pc = "returned" /\ min_safe_depth >= 1) => RegionsPartition

C5_Witness ==
    /\ g_pc = "returned"
    /\ min_safe_depth >= 2
    /\ Len(g_regions.zero_depth) > 0
    /\ Len(g_regions.low_depth) > 0
    /\ Len(g_regions.normal_depth) > 0

\* the windows of calculate_windowed_stats as (start, end) pairs
StatWindows == [k \in 1..Len(w_stats.starts) |-> <<w_stats.starts[k], w_stats.ends[k]>>]

\* the window behind each position of calculate_sliding_window
SlideWindows ==
    [k \in 1..Len(w_sliding.positions) |->
        <<w_sliding.positions[k] - (window_size - 1) \div 2,
          w_sliding.positions[k] - (window_size - 1) \div 2 + window_size - 1>>]

NonZeroPositions == {i \in 0..(Len(w_depths) - 1) : w_depths[i + 1] > 0}
NoZeroValue == \A k \in 1..Len(w_depths) : w_depths[k] # 0

\* [a, b] is a maximal run of strictly positive values of w_depths
IsMaximalRun(a, b) ==
    /\ 0 <= a /\ a <= b /\ b <= Len(w_depths) - 1
    /\ \A i \in a..b : w_depths[i + 1] > 0
    /\ (a = 0 \/ w_depths[a] = 0)
    /\ (b = Len(w_depths) - 1 \/ w_depths[b + 2] = 0)

\* the length-W chunks of the maximal runs
ExpectedChunks ==
    {<<s, e>> \in (0..(Len(w_depths) - 1)) \X (0..(Len(w_depths) - 1)) :
        \E a, b \in 0..(Len(w_depths) - 1) :
            /\ IsMaximalRun(a, b)
            /\ a <= s /\ s <= b
            /\ (s - a) % window_size = 0
            /\ e = Min(s + window_size - 1, b)}

\* windows listed in ascending order, pairwise disjoint
Ascending(ws) == \A k \in 1..(Len(ws) - 1) : ws[k][2] < ws[k + 1][1]

\* windows that tile [0, n-1]: no gap and no overlap
Tiles(ws, n) ==
    /\ Len(ws) > 0
    /\ ws[1][1] = 0
    /\ ws[Len(ws)][2] = n - 1
    /\ \A k \in 1..(Len(ws) - 1) : ws[k + 1][1] = ws[k][2] + 1

\* windows whose union is [0, n-1]
Covers(ws, n) == \A i \in 0..(n - 1) : \E k \in 1..Len(ws) : ws[k][1] <= i /\ i <= ws[k][2]

\* C6: calculate_windowed_stats returns exactly the consecutive length-W
\* chunks of every maximal run of positive values, in ascending order, with
\* absolute indices, each mean the mean of the values in [start, end]; the
\* windows are disjoint and their union is the set of non-zero positions.
C6_WindowsAreSegmentChunks ==
    ("stats" \in w_done) =>
        /\ Len(w_stats.means) = Len(w_stats.starts)
        /\ Len(w_stats.ends) = Len(w_stats.starts)
        /\ {StatWindows[k] : k \in 1..Len(StatWindows)} = ExpectedChunks
        /\ Ascending(StatWindows)
        /\ WithinRange(StatWindows, Len(w_depths))
        /\ \A k \in 1..Len(StatWindows) :
             LET s == StatWindows[k][1]
                 e == StatWindows[k][2]
             IN  /\ \A i \in s..e : w_depths[i + 1] > 0
                 /\ e - s + 1 <= window_size
                 /\ (e - s + 1 < window_size)
                        => (e = Len(w_depths) - 1 \/ w_depths[e + 2] = 0)
                 /\ w_stats.means[k] = [num |-> SumSeq(Slice(w_depths, s, e + 1)),
                                        den |-> e - s + 1]
        /\ UNION {StatWindows[k][1]..StatWindows[k][2] : k \in 1..Len(StatWindows)}
                = NonZeroPositions

C6_Witness ==
    /\ "stats" \in w_done
    /\ Len(w_stats.starts) >= 3
    /\ \E k \in 1..Len(StatWindows) : StatWindows[k][2] - StatWindows[k][1] + 1 = window_size
    /\ \E k \in 1..Len(StatWindows) : StatWindows[k][2] - StatWindows[k][1] + 1 < window_size
    /\ ~NoZeroValue
    /\ window_size >= 2

TilingCase ==
    /\ w_done = {"stats", "sliding"}
    /\ Len(w_depths) > 0
    /\ NoZeroValue
    /\ Len(w_depths) % window_size = 0

\* C7 as stated: without zero values and with N a multiple of W both window
\* modes produce windows that tile [0, N-1] with no gaps and no overlaps.
C7_BothModesTile ==
    TilingCase => /\ Tiles(StatWindows, Len(w_depths))
                  /\ Tiles(SlideWindows, Len(w_depths))

\* C7 amended: segment-first windows tile [0, N-1]; the moving average
\* returns the N-W+1 windows of length W that start at 0, 1, ..., N-W, which
\* cover [0, N-1] without gaps and tile it only when W = 1 or N = W.
C7_StatsTileSlidingCovers ==
    TilingCase =>
        /\ Tiles(StatWindows, Len(w_depths))
        /\ Len(SlideWindows) = Len(w_depths) - window_size + 1
        /\ \A k \in 1..Len(SlideWindows) :
             SlideWindows[k] = <<k - 1, k - 1 + window_size - 1>>
        /\ Covers(SlideWindows, Len(w_depths))
        /\ Tiles(SlideWindows, Len(w_depths))
             <=> (window_size = 1 \/ Len(w_depths) = window_size)

C7_Witness ==
    /\ TilingCase
    /\ window_size >= 2
    /\ Len(w_depths) >= 2 * window_size
    /\ Len(StatWindows) >= 2
    /\ ~Tiles(SlideWindows, Len(w_depths))

ShortCase == Len(w_depths) > 0 /\ Len(w_depths) < window_size

\* C8 as stated: a non-empty sequence shorter than W, zeros included, gives
\* exactly one window whose mean is the mean of the whole sequence, in both
\* window modes.
C8_ShortCollapsesBothModes ==
    ShortCase =>
        /\ ("stats" \in w_done) =>
              /\ Len(w_stats.means) = 1
              /\ MeanEq(w_stats.means[1], Mean(w_depths))
        /\ ("sliding" \in w_done) =>
              /\ Len(w_sliding.avg_depths) = 1
              /\ MeanEq(w_sliding.avg_depths[1], Mean(w_depths))

\* C8 amended: for a non-empty sequence shorter than W the moving average
\* returns one window, at the midpoint, whose mean is the mean of the whole
\* sequence; the segment-first mode does so when the sequence has no zero
\* value, and otherwise returns one window per non-zero segment (none for an
\* all-zero sequence), each with the mean of its segment.
C8_ShortCollapses ==
    ShortCase =>
        /\ ("sliding" \in w_done) =>
              /\ Len(w_sliding.avg_depths) = 1
              /\ MeanEq(w_sliding.avg_depths[1], Mean(w_depths))
              /\ w_sliding.positions = <<Len(w_depths) \div 2>>
        /\ ("stats" \in w_done /\ NoZeroValue) =>
              /\ Len(w_stats.means) = 1
              /\ MeanEq(w_stats.means[1], Mean(w_depths))
              /\ StatWindows = <<(<<0, Len(w_depths) - 1>>)>>
        /\ ("stats" \in w_done /\ ~NoZeroValue) =>
              /\ \A k \in 1..Len(StatWindows) :
                    /\ IsMaximalRun(StatWindows[k][1], StatWindows[k][2])
                    /\ MeanEq(w_stats.means[k],
                              Mean(Slice(w_depths, StatWindows[k][1], StatWindows[k][2] + 1)))
              /\ \A i \in NonZeroPositions :
                    \E k \in 1..Len(StatWindows) :
                        StatWindows[k][1] <= i /\ i <= StatWindows[k][2]
              /\ Ascending(StatWindows)

C8_Witness ==
    /\ ShortCase
    /\ w_done = {"stats", "sliding"}
    /\ Len(w_depths) >= 3
    /\ ~NoZeroValue
    /\ Len(w_stats.means) = 2
    /\ Len(w_sliding.avg_depths) = 1

\* the geometry the composite is laid out with
CompositeLayout == PanelLayout(composite.tracks, args)

\* the ratios the relocation search may request, in order
SearchRatios ==
    IF run_branch = "default_hit"
    THEN <<SafeRatio(CompositeLayout, args)>> \o DefaultHitCandidates(CompositeLayout, args)
    ELSE ParsedHitCandidates(args)

InitialRenderHits ==
    /\ run_pc = "composed"
    /\ HitsDepth(LV(args.scale_y_ratio), CompositeLayout, args)

\* C9: when the scale box of the initial render overlaps a depth panel and
\* some candidate ratio yields a render whose scale box overlaps neither
\* panel, the render embedded in the composite has a scale box that overlaps
\* neither panel.
C9_SearchFindsClearRender ==
    (/\ InitialRenderHits
     /\ \E k \in 1..Len(SearchRatios) :
            ~HitsDepth(LV(SearchRatios[k]), CompositeLayout, args))
        => ~HitsDepth(composite.inner, CompositeLayout, args)

C9_Witness ==
    /\ InitialRenderHits
    /\ HitsDepth(LV(SearchRatios[1]), CompositeLayout, args)
    /\ \E k \in 2..Len(SearchRatios) :
            /\ LV(SearchRatios[k]).scale # NoBox
            /\ ~HitsDepth(LV(SearchRatios[k]), CompositeLayout, args)
            /\ composite.inner = LV(SearchRatios[k])
    /\ Len(lv_requests) >= 3

\* C10: when every candidate render still has its scale bar over a depth
\* panel, run does not fail and the render embedded in the composite is the
\* one produced for the final candidate ratio of the list.
C10_KeepsLastAttemptedRender ==
    (/\ run_pc = "composed"
     /\ run_branch # "none"
     /\ \A k \in 1..Len(SearchRatios) :
            HitsDepth(LV(SearchRatios[k]), CompositeLayout, args))
        => composite.inner.scale = LV(SearchRatios[Len(SearchRatios)]).scale

\* the relocation search is under way
Searching == run_pc \in {"safe", "search"}

\* C11: whatever LINKVIEW draws, run calls it at most five times (the first
\* render, the safe-ratio render and three candidates), and a run that has
\* entered the relocation search always goes on to write the composite.
C11_SearchTerminates ==
    /\ [](Len(lv_requests) <= 1 + 1 + 3)
    /\ (Searching ~> run_pc = "composed")

C11_Witness ==
    /\ run_pc = "composed"
    /\ Len(lv_requests) = 1 + 1 + 3
    /\ composite.written
    /\ HitsDepth(composite.inner, CompositeLayout, args)

\* the last (highest) extracted track row of the composite
LastRow == composite.tracks[Len(composite.tracks)]

\* C12: in every composite, the top panel block ends panel_gap above the
\* first row and the bottom panel block starts panel_gap below the bottom
\* edge of the last row and spans the x-range of the last row.
C12_PanelsAnchorFirstAndLastRow ==
    run_pc = "composed" =>
        /\ CompositeLayout.block_y_top + 2 * args.depth_height + PanelGap(args)
              = composite.tracks[1][2] + CompositeLayout.global_offset
        /\ CompositeLayout.block_y_bottom
              = LastRow[2] + LastRow[4] + PanelGap(args) + CompositeLayout.global_offset
        /\ CompositeLayout.x_left_bottom = LastRow[1]
        /\ CompositeLayout.x_right_bottom = LastRow[1] + LastRow[3]

\* C13: when the first render has no chro rectangle, run raises: no depth
\* source is read, no composite is written, and run never gets past the
\* track extraction.
C13_NoTracksIsFatal ==
    /\ (CollectChroTracks(lv_rects) = <<>> /\ run_pc # "idle")
          => /\ run_pc \in {"start", "raised"}
             /\ layout = NoLayout
             /\ depth_by_chr = EmptyMap
             /\ composite = NoComposite
    /\ run_pc = "raised"
          => /\ tracks = <<>>
             /\ Len(lv_requests) = 1
             /\ depth_by_chr = EmptyMap
             /\ ~composite.written

C13_Witness ==
    /\ run_pc = "raised"
    /\ lv_rects = <<>>
    /\ Len(lv_requests) = 1

\* C14: _scale_x_by_length called with the indexes 0..L-1 returns exactly
\* x_left for index 0 and exactly x_right for index L-1 when L > 1, and
\* x_left for every index when L <= 1.
C14_EndpointsExact ==
    (sx_pc = "returned" /\ sx_indexes # <<>>) =>
        IF sx_total_length > 1
        THEN /\ FEq(sx_result[1], sx_left)
             /\ FEq(sx_result[sx_total_length], sx_right)
        ELSE \A k \in 1..Len(sx_result) : FEq(sx_result[k], sx_left)

\* the ways to assign every rectangle to one returned row
CtAssignments == [1..Len(ct_rects) -> 1..Len(ct_tracks)]
CtMembers(row, r) == {k \in 1..Len(ct_rects) : row[k] = r}
CtMaxHeight(ms) == CHOOSE h \in {ct_rects[k][4] : k \in ms} : \A k \in ms : ct_rects[k][4] <= h
CtAscending == \A r \in 1..(Len(ct_tracks) - 1) : ct_tracks[r][2] < ct_tracks[r + 1][2]

\* every row has a member, spans from the least x to the greatest right edge
\* of its members
CtBoxesSpanMembers(row) ==
    \A r \in 1..Len(ct_tracks) :
        LET ms == CtMembers(row, r)
        IN  /\ ms # {}
            /\ \A k \in ms : /\ ct_tracks[r][1] <= ct_rects[k][1]
                              /\ ct_rects[k][1] + ct_rects[k][3] <= ct_tracks[r][1] + ct_tracks[r][3]
            /\ \E k \in ms : ct_tracks[r][1] = ct_rects[k][1]
            /\ \E k \in ms : ct_rects[k][1] + ct_rects[k][3] = ct_tracks[r][1] + ct_tracks[r][3]

\* C15 as stated: the returned rows ascend strictly in y and the rectangles
\* can be assigned to them so that two rectangles share a row exactly when
\* their y differ by less than the epsilon, and every box has the least x,
\* the greatest right edge and the greatest height of its members.
C15_RowsAreEpsilonClasses ==
    ct_pc = "returned" =>
        /\ CtAscending
        /\ \E row \in CtAssignments :
              /\ \A i, j \in 1..Len(ct_rects) :
                    (row[i] = row[j]) <=> (Abs(ct_rects[i][2] - ct_rects[j][2]) < TrackEps)
              /\ CtBoxesSpanMembers(row)
              /\ \A r \in 1..Len(ct_tracks) : ct_tracks[r][4] = CtMaxHeight(CtMembers(row, r))

\* C15 amended: the returned rows ascend in y by at least the epsilon, each
\* row has the least y of its members, a rectangle belongs to the row whose
\* y it exceeds by less than the epsilon, and every box has the least x, the
\* greatest right edge and the greatest height of its members, or height 15
\* when that greatest height is 0.
C15_RowsAnchoredOnLeastY ==
    ct_pc = "returned" =>
        /\ \A r \in 1..(Len(ct_tracks) - 1) : ct_tracks[r][2] + TrackEps <= ct_tracks[r + 1][2]
        /\ \E row \in CtAssignments :
              /\ \A k \in 1..Len(ct_rects) :
                    /\ ct_tracks[row[k]][2] <= ct_rects[k][2]
                    /\ ct_rects[k][2] < ct_tracks[row[k]][2] + TrackEps
              /\ \A i, j \in 1..Len(ct_rects) :
                    row[i] = row[j] => Abs(ct_rects[i][2] - ct_rects[j][2]) < TrackEps
              /\ \A r \in 1..Len(ct_tracks) :
                    \E k \in CtMembers(row, r) : ct_rects[k][2] = ct_tracks[r][2]
              /\ CtBoxesSpanMembers(row)
              /\ \A r \in 1..Len(ct_tracks) :
                    ct_tracks[r][4] = IF CtMaxHeight(CtMembers(row, r)) > 0
                                      THEN CtMaxHeight(CtMembers(row, r)) ELSE 15

C15_Witness ==
    /\ ct_pc = "returned"
    /\ Len(ct_rects) = 3
    /\ {ct_rects[k][2] : k \in 1..3} = {0, 1, 2}
    /\ ct_rects[1][2] = 2
    /\ Len(ct_tracks) = 2
    /\ ct_tracks[1][3] = 14
    /\ ct_tracks[2][4] = 15

\* rs lists exactly the maximal runs of True of mask, in ascending order
MaximalRuns(mask, rs) ==
    /\ \A i \in 1..Len(rs) :
          /\ 0 <= rs[i][1] /\ rs[i][1] <= rs[i][2] /\ rs[i][2] <= Len(mask) - 1
          /\ \A k \in rs[i][1]..rs[i][2] : mask[k + 1]
          /\ (rs[i][1] = 0 \/ ~mask[rs[i][1]])
          /\ (rs[i][2] = Len(mask) - 1 \/ ~mask[rs[i][2] + 2])
    /\ \A i \in 1..(Len(rs) - 1) : rs[i][2] + 1 < rs[i + 1][1]
    /\ \A k \in 0..(Len(mask) - 1) :
          mask[k + 1] => \E i \in 1..Len(rs) : rs[i][1] <= k /\ k <= rs[i][2]

\* C16: _find_continuous_regions and _mask_to_regions both return exactly
\* the maximal runs of True of the mask as closed intervals in ascending
\* order, a run that reaches the last index included; an empty mask gives
\* no interval.
C16_RegionsAreMaximalRuns ==
    /\ "continuous" \in mk_done => MaximalRuns(mk_mask, mk_continuous)
    /\ "mask_to" \in mk_done => MaximalRuns(mk_mask, mk_mask_to)

C16_Witness ==
    /\ mk_done = {"continuous", "mask_to"}
    /\ Len(mk_mask) >= 4
    /\ mk_mask[Len(mk_mask)]
    /\ Len(mk_continuous) >= 2
    /\ mk_continuous[Len(mk_continuous)][2] = Len(mk_mask) - 1
    /\ mk_mask_to = mk_continuous

\* the lines between the last header of id and the next header (or the end)
LastHeaderOf(lines, id) ==
    CHOOSE h \in 1..Len(lines) :
        /\ lines[h] = Header(id)
        /\ \A k \in (h + 1)..Len(lines) : lines[k] # Header(id)
BodyAfter(lines, h) ==
    LET stops == {k \in (h + 1)..Len(lines) : lines[k].kind = "header"} \cup {Len(lines) + 1}
        e == CHOOSE k \in stops : \A j \in stops : k <= j
    IN  SubSeq(lines, h + 1, e - 1)
IsDepthLine(line) == line.kind = "value" /\ line.v >= 0

\* the array the body of the last block of id stands for: its non-negative
\* integer lines in order, each cut to 65535
ExpectedArray(lines, id) ==
    LET kept == SelectSeq(BodyAfter(lines, LastHeaderOf(lines, id)), IsDepthLine)
    IN  [k \in 1..Len(kept) |-> IF kept[k].v > 65535 THEN 65535 ELSE kept[k].v]

\* C17: for a non-empty target set, the keys of the returned store are
\* exactly the targets that have a header in the file: no non-target ID is
\* committed, and a target without a header is absent.
C17_StoreKeysAreSeenTargets ==
    (p_pc = "returned" /\ p_targets # {}) =>
        /\ Keys(p_sequences) = p_targets \cap HeaderIds(p_file)
        /\ Keys(p_mean_depths) = Keys(p_sequences)

C17_Witness ==
    /\ p_pc = "returned"
    /\ p_targets = {"chr1", "chr9"}
    /\ HeaderIds(p_file) = {"chr1", "chr2"}
    /\ \E k \in 2..Len(p_file) : p_file[k - 1] = Header("chr2") /\ p_file[k] = Value(7)
    /\ Keys(p_sequences) = {"chr1"}

\* C18: every array of the returned store is the body of its sequence cut
\* down to the lines that are non-negative integers, in file order, each
\* value above 65535 replaced by 65535; so every stored value is in
\* 0..65535.
C18_StoredArrayIsClampedBody ==
    p_pc = "returned" =>
        \A id \in Keys(p_sequences) :
            /\ p_sequences[id] = ExpectedArray(p_file, id)
            /\ \A k \in 1..Len(p_sequences[id]) :
                  0 <= p_sequences[id][k] /\ p_sequences[id][k] <= 65535

C18_Witness ==
    /\ p_pc = "returned"
    /\ p_file = <<Header("chr1"), Value(70000), Junk, Value(-1)>>
    /\ "chr1" \in Keys(p_sequences)
    /\ p_sequences["chr1"] = <<65535>>

\* the array a source stands for under one ID: empty when the source is not
\* given, cannot be parsed, or has no header for the ID
ExpectedYield(file, id) ==
    IF file = NoFile \/ ParseRaises(file) \/ id \notin HeaderIds(file) THEN <<>>
    ELSE ExpectedArray(file, id)

\* every ID of ids was yielded exactly once, with the full arrays of both
\* sources, and nothing else was yielded
YieldedExactly(ids) ==
    /\ YieldedIds = ids
    /\ \A id \in ids :
          /\ YieldCount(id) = 1
          /\ YieldOf(id).hifi = ExpectedYield(hifi_file, id)
          /\ YieldOf(id).ont = ExpectedYield(ont_file, id)

\* C19 as stated: with a non-empty target set the reader has yielded, when
\* it ends, every target once if no region mapping was given, and otherwise
\* exactly the targets that are keys of the mapping, each with the full
\* parsed arrays of both sources (empty for a source without the ID).
C19_YieldsTargetsInMapping ==
    (r_pc = "ended" /\ target_sequences # {}) =>
        YieldedExactly({t \in target_sequences : regions.is_none \/ t \in regions.keys})

\* C19 amended: as above, but a region mapping that is given and empty
\* filters nothing: every target is yielded.
C19_YieldsTargetsInNonEmptyMapping ==
    (r_pc = "ended" /\ target_sequences # {}) =>
        YieldedExactly({t \in target_sequences :
                            ~RegionsTruthy(regions) \/ t \in regions.keys})

C19_Witness ==
    /\ r_pc = "ended"
    /\ target_sequences = {"chr2", "chr3"}
    /\ regions = RegionsOf({"chr1", "chr2"})
    /\ YieldedIds = {"chr2"}
    /\ YieldOf("chr2").hifi = <<7>>
    /\ YieldOf("chr2").ont = <<>>
    /\ "chr3" \in HeaderIds(ont_file)

\* the IDs of a readable source the reader is asked for
AskedOf(file) ==
    {id \in HeaderIds(file) :
        /\ (target_sequences = {} \/ id \in target_sequences)
        /\ (~RegionsTruthy(regions) \/ id \in regions.keys)}
Readable(file) == file # NoFile /\ ~ParseRaises(file)

\* C20: when the parser raises on one source and the other source is
\* readable, the reader still ends, every asked-for sequence of the other
\* source has been yielded with its full array, and every yielded tuple has
\* an empty array for the source that failed.
C20_OtherSourceYieldedInFull ==
    /\ (r_pc = "ended" /\ ParseRaises(hifi_file) /\ Readable(ont_file)) =>
          /\ \A id \in AskedOf(ont_file) :
                id \in YieldedIds /\ YieldOf(id).ont = ExpectedArray(ont_file, id)
          /\ \A i \in 1..Len(yielded) : yielded[i].hifi = <<>>
    /\ (r_pc = "ended" /\ ParseRaises(ont_file) /\ Readable(hifi_file)) =>
          /\ \A id \in AskedOf(hifi_file) :
                id \in YieldedIds /\ YieldOf(id).hifi = ExpectedArray(hifi_file, id)
          /\ \A i \in 1..Len(yielded) : yielded[i].ont = <<>>

-----------------------------------------------------------------------------
\* C21: in main's loop a failure while processing one sequence (an exception
\* from plotting, or no depth data in either source) never aborts the batch:
\* it is counted in failed, every sequence the reader yields is processed,
\* and the loop ends by reporting the successful and failed totals.
RECURSIVE LogSum(_, _)
LogSum(log, field) ==
    IF log = <<>> THEN 0 ELSE Head(log)[field] + LogSum(Tail(log), field)

LoggedIds == {m_log[k].seq_id : k \in 1..Len(m_log)}

IterationFailed(e) == e.raised \/ (e.hifi_len = 0 /\ e.ont_len = 0)

C21_FailureNeverAbortsBatch ==
    (m_pc \in {"loop", "reported"}) =>
        /\ \A k \in 1..Len(m_log) : IterationFailed(m_log[k]) => m_log[k].failed >= 1
        /\ failed = LogSum(m_log, "failed")
        /\ successful = LogSum(m_log, "successful")
        /\ LoggedIds \cup m_pending = MainTargets(regions_to_use)
        /\ (m_pc = "reported") =>
              /\ LoggedIds = MainTargets(regions_to_use)
              /\ Len(m_log) = Cardinality(MainTargets(regions_to_use))

\* an iteration ends in an exception, the next one plots, the totals are reported
C21_Witness ==
    /\ m_pc = "reported"
    /\ Len(m_log) = 2
    /\ m_log[1].raised
    /\ m_log[2].successful >= 1
    /\ failed >= 1

-----------------------------------------------------------------------------
\* C22: when run completes exactly one output artifact is retained: the
\* composite SVG when the SVG format is selected or when both PDF converters
\* fail (which only warns), the PDF alone, the SVG removed, when a converter
\* succeeds; the second converter is tried only after the first has failed.
C22_ExactlyOneArtifact ==
    (run_pc \in {"converted", "done"}) =>
        /\ Cardinality(out_files) = 1
        /\ (args.output_format = "svg") =>
              (out_files = {"svg"} /\ convert_attempts = <<>> /\ ~warned)
        /\ (args.output_format = "pdf" /\ ~Converted(convert_attempts)) =>
              (out_files = {"svg"} /\ warned /\ Len(convert_attempts) = 2)
        /\ (args.output_format = "pdf" /\ Converted(convert_attempts)) =>
              (out_files = {"pdf"} /\ ~warned)
        /\ (Len(convert_attempts) = 2) =>
              (convert_attempts[1] = Attempt("cairosvg", FALSE)
                 /\ convert_attempts[2].tool = "inkscape")

-----------------------------------------------------------------------------
\* the relocation search is over and inner is the render to embed
SearchOver == run_pc \in {"read", "compose", "composed", "converted", "done"}

\* C23: a render without a scale-bar rectangle does not make run fail and is
\* taken as it is: it is the render embedded, and no further render is
\* requested from LINKVIEW after it.
C23_NoScaleBarEndsChecking ==
    /\ (run_pc = "raised") => (tracks = <<>>)
    /\ SearchOver =>
          \A k \in 1..Len(lv_requests) :
              (LV(lv_requests[k]).scale = NoBox) =>
                  (k = Len(lv_requests) /\ inner = LV(lv_requests[k]))

-----------------------------------------------------------------------------
\* the top panel's y as first computed, before any shift
ComputedTopY == tracks[1][2] - PanelGap(args) - 2 * args.depth_height

\* what is added to every y: the deficit of a negative top y, then the margin
PlacementOffset ==
    (IF ComputedTopY < 0 THEN -ComputedTopY ELSE 0) + Max(0, args.top_margin)

\* C24: when the top panel's computed y is negative, both panels and the
\* track rows (the translation of the alignment diagram) move down by the
\* same deficit, then the top margin (a negative one counts as 0) is added to
\* all of them: the final top-panel y is max(0, computed y) + top_margin >= 0
\* and all vertical distances are kept; the layout used for the collision
\* test and the layout used for rendering are identical.
C24_ShiftKeepsDistances ==
    /\ (layout # NoLayout) =>
          /\ layout.block_y_top = Max(0, ComputedTopY) + Max(0, args.top_margin)
          /\ layout.block_y_top >= 0
          /\ layout.block_y_top = ComputedTopY + PlacementOffset
          /\ layout.block_y_bottom =
                BottomTrack(tracks)[2] + BottomTrack(tracks)[4] + PanelGap(args) + PlacementOffset
          /\ layout.y_top = tracks[1][2] + PlacementOffset
          /\ layout.y_bottom = BottomTrack(tracks)[2] + PlacementOffset
          /\ layout.middle_y = PlacementOffset
    /\ composite.written => composite.layout = layout

\* a composite whose top panel would have started above 0 and has a margin
C24_Witness ==
    /\ composite.written
    /\ ComputedTopY < 0
    /\ args.top_margin > 0
    /\ composite.layout.middle_y = -ComputedTopY + args.top_margin
    /\ Len(tracks) >= 2

-----------------------------------------------------------------------------
\* the default-hit branch has requested its first candidate, the safe ratio
SafeRatioRequested ==
    /\ run_branch = "default_hit"
    /\ Len(lv_requests) >= 2
    /\ Len(tracks) >= 2
    /\ layout.y_bottom - (layout.y_top + layout.h_top) >= 10

\* y of the scale bar of the safe-ratio render in composite coordinates, in
\* hundredths: ratio * svg_height plus the translation of the diagram
SafeScaleAbsY == lv_requests[2] + 100 * layout.middle_y

\* C25: when the default position falls in a panel's extent and the two rows
\* are at least 10 px apart, the first ratio requested puts the scale bar, in
\* composite coordinates, at or below the bottom edge of the first row and at
\* least 10 px above the top edge of the second row, for every global offset
\* and top margin.
C25_SafeRatioInGap ==
    SafeRatioRequested =>
        /\ 100 * (layout.y_top + layout.h_top) <= SafeScaleAbsY
        /\ SafeScaleAbsY <= 100 * (layout.y_bottom - 10)

-----------------------------------------------------------------------------
\* every bar of a returned call, HiFi and ONT
AllBars ==
    IF bb_pc = "returned"
    THEN {bb_result.bars_top[k] : k \in 1..Len(bb_result.bars_top)}
            \cup {bb_result.bars_bottom[k] : k \in 1..Len(bb_result.bars_bottom)}
    ELSE {}

BarStats(arr) == CalculateWindowedStats(arr, bb_args.window_size)
BarCap(arr) == DatasetCap(NonZeroMean(arr), bb_args.max_depth_ratio)
SharedCap ==
    LET c == QMax(BarCap(bb_hifi), BarCap(bb_ont))
    IN  IF QLe(c, Q(0, 1)) THEN Q(1, 1) ELSE c

\* depth_height * min(window mean, cap) / shared cap, for each window
HeightsAsStated(arr, bars) ==
    /\ Len(bars) = Len(BarStats(arr).means)
    /\ \A k \in 1..Len(bars) :
          LET own == IF QLt(Q(0, 1), BarCap(arr)) THEN BarCap(arr) ELSE SharedCap
              want == QDiv(QMul(Q(bb_args.depth_height, 1), QMin(BarStats(arr).means[k], own)),
                           SharedCap)
          IN  QLe(bars[k].height, want) /\ QLe(want, bars[k].height)

\* C26: the shared cap is the larger of the two nonzero means times the
\* ratio (1 when both are zero), a bar's height is depth_height times its
\* window mean clamped to its dataset's cap over the shared cap, so every bar
\* height lies in [0, depth_height] and every bar stays in its half of the
\* combined panel: HiFi bars between the panel top and the baseline, ONT
\* bars between the baseline and the panel bottom.
C26_BarsWithinHalfPanel ==
    (bb_pc = "returned") =>
        /\ QLe(bb_result.global_cap, SharedCap) /\ QLe(SharedCap, bb_result.global_cap)
        /\ HeightsAsStated(bb_hifi, bb_result.bars_top)
        /\ HeightsAsStated(bb_ont, bb_result.bars_bottom)
        /\ \A b \in AllBars :
              /\ QLe(Q(0, 1), b.height)
              /\ QLe(b.height, Q(bb_args.depth_height, 1))
        /\ \A k \in 1..Len(bb_result.bars_top) :
              /\ QLe(bb_args.panel_origin_y, bb_result.bars_top[k].y)
              /\ QLe(QAdd(bb_result.bars_top[k].y, bb_result.bars_top[k].height),
                     bb_result.baseline_y)
        /\ \A k \in 1..Len(bb_result.bars_bottom) :
              /\ QLe(bb_result.baseline_y, bb_result.bars_bottom[k].y)
              /\ QLe(QAdd(bb_result.bars_bottom[k].y, bb_result.bars_bottom[k].height),
                     QAdd(bb_result.baseline_y, Q(bb_args.depth_height, 1)))

\* a window mean above its dataset's cap is drawn, next to a dataset with the
\* larger cap
C26_Witness ==
    /\ bb_pc = "returned"
    /\ QLt(BarCap(bb_hifi), BarCap(bb_ont))
    /\ \E k \in 1..Len(bb_result.bars_top) :
          /\ QLt(BarCap(bb_hifi), BarStats(bb_hifi).means[k])
          /\ QLt(Q(0, 1), bb_result.bars_top[k].height)
          /\ QLt(bb_result.bars_top[k].height, Q(bb_args.depth_height, 1))
    /\ \E k \in 1..Len(bb_result.bars_bottom) :
          QLe(Q(bb_args.depth_height, 1), bb_result.bars_bottom[k].height)

-----------------------------------------------------------------------------
\* run has returned or raised
RunEnded == run_pc \in {"done", "raised"}

\* C27: the temporary LINKVIEW file is overwritten in place by each
\* regeneration (it holds the render of the latest request), and unless
\* keep_tmp is set it no longer exists once run has ended, by normal
\* completion or by the failure on missing track geometry.
C27_TmpFileRemovedOnEveryEnd ==
    /\ (lv_requests # <<>> /\ run_pc # "done") =>
          tmp_svg = LV(lv_requests[Len(lv_requests)])
    /\ (RunEnded /\ ~args.keep_tmp) => tmp_svg = NoRender

-----------------------------------------------------------------------------
\* C28: every depth bar lies horizontally inside its panel's pixel range:
\* for every sequence of length at least 2, x_left <= bar.x and
\* bar.x + bar.width <= x_right.
C28_BarsInsidePanelRange ==
    (bb_pc = "returned" /\ Max(Len(bb_hifi), Len(bb_ont)) >= 2) =>
        \A b \in AllBars :
            /\ QLe(bb_args.x_left, b.x)
            /\ QLe(QAdd(b.x, b.width), bb_args.x_right)

-----------------------------------------------------------------------------
\* the track rows of the render that is embedded in the composite
EmbeddedTracks == CollectChroTracks(composite.inner.rects)

\* C29: the track-row geometry run uses to place the depth panels and to
\* test collisions is that of the render finally embedded: when a
\* regenerated render replaces the first one, the placement is derived from
\* the regenerated render's track rectangles.
C29_PlacementFromEmbeddedRender ==
    composite.written =>
        /\ composite.tracks = EmbeddedTracks
        /\ layout = PanelLayout(EmbeddedTracks, args)
        /\ composite.layout = RenderLayout(EmbeddedTracks, args)

\* the header lines of id, and the array one header block stands for
HeadersOf(lines, id) == {h \in 1..Len(lines) : lines[h] = Header(id)}
BlockArray(lines, h) ==
    LET kept == SelectSeq(BodyAfter(lines, h), IsDepthLine)
    IN  [k \in 1..Len(kept) |-> IF kept[k].v > 65535 THEN 65535 ELSE kept[k].v]
LastOf(hs) == CHOOSE h \in hs : \A k \in hs : k <= h

\* C30: a target ID with more than one header block in the file is stored
\* with the values of its last block only: the earlier blocks are replaced,
\* never prepended; and every stored array is the array of one block headed
\* by its own ID, so no value moves from one ID's block to another ID.
C30_RepeatedIdKeepsLastBlock ==
    p_pc = "returned" =>
        /\ \A id \in p_targets :
              Cardinality(HeadersOf(p_file, id)) >= 2 =>
                  /\ id \in Keys(p_sequences)
                  /\ p_sequences[id] = BlockArray(p_file, LastOf(HeadersOf(p_file, id)))
                  /\ Len(p_sequences[id]) =
                        Len(BlockArray(p_file, LastOf(HeadersOf(p_file, id))))
        /\ \A id \in Keys(p_sequences) :
              \E h \in HeadersOf(p_file, id) : p_sequences[id] = BlockArray(p_file, h)

C30_Witness ==
    /\ p_pc = "returned"
    /\ p_targets = {"chr1", "chr2"}
    /\ p_file = <<Header("chr1"), Value(7), Header("chr2"), Header("chr1")>>
    /\ Keys(p_sequences) = {"chr1", "chr2"}
    /\ p_sequences["chr1"] = <<>>
    /\ p_sequences["chr2"] = <<>>

=============================================================================
